---- MODULE Spec2Model ----
(***************************************************************************)
(* Metric computation engine of sharing-monitor (browser-utils/metrics).   *)
(*                                                                         *)
(* Numbers.  Times are milliseconds.  CLS magnitudes are counted in        *)
(* thousandths (0.05 is 50), so CLSThresholds [0.1, 0.25] is <<100, 250>>. *)
(* JavaScript arrays are 0-based, TLA+ tuples 1-based: thresholds[0] of    *)
(* the source is thresholds[1] here.                                       *)
(*                                                                         *)
(* Specifications.                                                         *)
(*   SpecBind  one record and its reporter (bindReporter), driven by an    *)
(*             algorithm that sets values, calls the reporter and rebinds. *)
(*   SpecCLS   the closure that onCLS hands to onFCP, with the layout      *)
(*             shifts, deliveries, timers, frames, hidden transitions and  *)
(*             cache restorations of a page.                               *)
(*   SpecLCP, SpecFCP, SpecFID, SpecTTFB                                   *)
(*             one call of onLCP, onFCP, onFID, onTTFB on a page with a    *)
(*             clock, prerendering, visibility changes, cache restorations *)
(*             and animation frames.                                       *)
(*   SpecObserve                                                           *)
(*             one call of observe (lib/observe.ts) in a browser that may  *)
(*             lack the api or the entry type, or throw.                   *)
(*   SpecInteractions                                                      *)
(*             lib/interactions.ts under processInteractionEntry and       *)
(*             resetInteractions calls.                                    *)
(*   SpecINP   one call of onINP on a page whose user interacts, with idle *)
(*             callbacks, hidden transitions and cache restorations.       *)
(*   SpecNav   the records initMetric creates on a page that may be        *)
(*             prerendered, discarded or restored from the cache.          *)
(*   SpecWhenIdle                                                          *)
(*             calls of whenIdle with idle callbacks and hidden            *)
(*             transitions; the idle callback is weakly fair.              *)
(*   SpecEngine, SpecHidden                                                *)
(*             a page that runs one of onCLS, onLCP, onFCP, onINP, or one  *)
(*             of onCLS, onLCP, onFID, onINP.                              *)
(***************************************************************************)
EXTENDS Integers, Sequences, FiniteSets, TLC

VARIABLES
    \* ---- SpecBind: one algorithm's `metric` and `report` ----
    bName,              \* metric.name of the records under test
    bReportAllChanges,  \* the reportAllChanges argument of bindReporter
    bThresholds,        \* the thresholds argument of bindReporter
    bMetric,            \* the record the current reporter is bound to
    bReport,            \* the reporter's closure: prevValue, delta
    bCalls,             \* the consumer callback's invocations, oldest first
    bNextId,            \* ids handed out so far (generateUniqueID)
    bOps,               \* operations performed
    bLast,              \* the latest operation and the state it started from
    \* ---- SpecCLS: onCLS ----
    workload,           \* which layout-shift samples the page produces
    layoutShiftSupported, \* 'layout-shift' in supportedEntryTypes
    reportAllChanges,   \* opts.reportAllChanges
    visibilityState,    \* document.visibilityState
    called,             \* runOnce: its flag; calls of the wrapper, runs of the body
    po,                 \* observe()'s result: "unset", "undefined", "observer"
    poQueue,            \* samples the browser has queued for the observer
    nSamples,           \* samples produced so far
    now,                \* startTime of the latest sample
    sessionValue,       \* let sessionValue
    sessionEntries,     \* let sessionEntries
    clsMetrics,         \* every record `metric` has been assigned, oldest first
    clsReports,         \* the closure of every reporter `report` has been assigned
    sharedEntries,      \* indices of records whose entries array IS sessionEntries
    timer0,             \* setTimeout(report, 0): "none", "pending", "fired"
    rafs,               \* doubleRAF callbacks waiting: <<for two frames, for one>>
    clsCalls,           \* onReport's invocations, oldest first
    handled,            \* non-input samples handleEntries has seen this epoch
    nRestores,          \* cache restorations so far
    \* ---- the page of SpecLCP, SpecFCP, SpecFID, SpecTTFB ----
    task,               \* what the page does: "load" or "restore"
    doc,                \* document: visibilityState, prerendering, readyState
    clock,              \* performance.now(), and the timeStamp of events
    navEntry,           \* the navigation entry: activationStart, responseStart
    opts,               \* opts of the call: reportAllChanges
    supported,          \* the observed entry type is in supportedEntryTypes
    firstHiddenTime,    \* let firstHiddenTime of getVisibilityWatcher.ts
    watcher,            \* its change listeners are added; its pending timers
    started,            \* the call: "no", "waiting" (whenActivated), "yes"
    metrics,            \* every record `metric` has been assigned, oldest first
    reports,            \* the closure of every reporter `report` has been assigned
    calls,              \* onReport's invocations, oldest first
    observer,           \* po: "unset", "undefined", "observing", "disconnected"
    queue,              \* entries the browser holds for the observer
    produced,           \* entries the browser has produced
    frames,             \* doubleRAF callbacks waiting: <<two frames, one frame>>
    pageshows,          \* cache restorations so far
    restored,           \* per restore handler run: record id, timeStamp, now
    lcp,                \* onLCP: stopListening's runOnce flag, reportedMetricIDs,
                        \* whenIdle callbacks pending; whether stopListening
                        \* was called never, once or more often (tries), the
                        \* records its body ran for (stops) and those it
                        \* emitted (finals)
    fid,                \* onFID: the hidden handler's runOnce flag, whether the
                        \* document had its first input, and the state of
                        \* firstInputPolyfill: "off", "armed", "fired"; the
                        \* records that existed at the latest cache
                        \* restoration (old)
    ttfb,               \* onTTFB: callbacks waiting for activation, load
                        \* listeners, timers, restore handlers, load events
                        \* seen and the values the callback computed
    \* ---- SpecInteractions: lib/interactions.ts ----
    longestInteractionList,
    longestInteractionMap,  \* the ids that are keys of the map
    prevInteractionCount,
    interactionCount,   \* getInteractionCount()
    ingested,           \* processInteractionEntry calls so far
    seen,               \* <<id, duration>>: the longest qualifying sample of
                        \* each interaction ingested since the latest reset
    \* ---- SpecObserve: lib/observe.ts ----
    obEnv,              \* the browser: PerformanceObserver api, whether the type
                        \* is supported, whether the constructor or
                        \* po.observe() throws
    obPo,               \* observe()'s result: "uncalled", "undefined",
                        \* "observer", or "thrown" if an exception left it
    obRegistered,       \* the browser has the observer registered
    obProduced,         \* entries of the type the browser has produced
    obQueue,            \* entries the browser holds for the observer
    obTasks,            \* promise reactions pending, each with its entries
    obBatches,          \* the entries of every callback invocation
    \* ---- SpecEngine: the algorithm that runs, and onINP ----
    alg,                \* the algorithm the page runs: "CLS", "LCP", "FCP",
                        \* "FID", "TTFB", "INP"; "none" in the specifications
                        \* of the library functions
    inp,                \* onINP: the batches whose whenIdle callback is
                        \* pending, each with the epoch it was delivered in
    nav,                \* SpecNav: let bfcacheRestoreTime, whether a pageshow
                        \* listener of onBFCacheRestore is added, and the
                        \* records initMetric has returned
    wi                  \* SpecWhenIdle: the callbacks given to whenIdle

bindVars == <<bName, bReportAllChanges, bThresholds, bMetric, bReport, bCalls,
              bNextId, bOps, bLast>>

clsVars == <<workload, layoutShiftSupported, reportAllChanges, visibilityState,
             called, po, poQueue, nSamples, now, sessionValue, sessionEntries,
             clsMetrics, clsReports, sharedEntries, timer0, rafs, clsCalls,
             handled, nRestores>>

algVars == <<metrics, reports, calls, observer, queue>>

pageVars == <<task, doc, clock, navEntry, opts, supported, firstHiddenTime, watcher,
              started, algVars, produced, frames, pageshows, restored, lcp, fid,
              ttfb>>

interactionVars == <<longestInteractionList, longestInteractionMap,
                     prevInteractionCount, interactionCount, ingested, seen>>

observeVars == <<obEnv, obPo, obRegistered, obProduced, obQueue, obTasks,
                 obBatches>>

engineVars == <<alg, inp, nav, wi>>

vars == <<bindVars, clsVars, pageVars, interactionVars, observeVars, engineVars>>

\* What the actions of one specification leave alone.
notBind == <<clsVars, pageVars, interactionVars, observeVars, engineVars>>

notCls == <<bindVars, pageVars, interactionVars, observeVars, engineVars>>

notPage == <<bindVars, clsVars, interactionVars, observeVars, engineVars>>

notInteractions == <<bindVars, clsVars, pageVars, observeVars, engineVars>>

notObserve == <<bindVars, clsVars, pageVars, interactionVars, engineVars>>

----------------------------------------------------------------------------
(* Bounds *)

\* operations of one SpecBind run
MaxOps == 7

----------------------------------------------------------------------------
(* The variables of a specification that is not running *)

\* onLCP's closure before onLCP is called
NoLcp == [called |-> FALSE, reportedMetricIDs |-> {}, idle |-> 0,
          tries |-> 0, stops |-> <<>>, finals |-> <<>>]

\* onFID's closure before onFID is called
NoFid == [called |-> FALSE, firstInput |-> FALSE, polyfill |-> "off",
          old |-> 0]

\* onTTFB's closure before onTTFB is called
NoTtfb == [waiting |-> 0, listeners |-> 0, timers |-> 0, handlers |-> 0,
           loads |-> 0, computed |-> <<>>]

PageUnused ==
    /\ doc = [visibilityState |-> "visible", prerendering |-> FALSE,
              readyState |-> "complete"]
    /\ clock = 0
    /\ navEntry = [activationStart |-> 0, responseStart |-> 0]
    /\ opts = [reportAllChanges |-> FALSE]
    /\ supported = FALSE
    /\ firstHiddenTime = -1
    /\ watcher = [listening |-> FALSE, timers |-> 0]
    /\ started = "no"
    /\ metrics = <<>>
    /\ reports = <<>>
    /\ calls = <<>>
    /\ observer = "unset"
    /\ queue = <<>>
    /\ produced = 0
    /\ frames = <<<<>>, <<>>>>
    /\ pageshows = 0
    /\ restored = <<>>
    /\ lcp = NoLcp
    /\ fid = NoFid
    /\ ttfb = NoTtfb

PageIdle ==
    /\ task = "none"
    /\ PageUnused

InteractionsIdle ==
    /\ longestInteractionList = <<>>
    /\ longestInteractionMap = {}
    /\ prevInteractionCount = 0
    /\ interactionCount = 0
    /\ ingested = 0
    /\ seen = {}

\* lib/observe.ts before observe() is called, in a browser with the api
ObserveIdle ==
    /\ obEnv = [api |-> "present", includes |-> TRUE, ctorThrows |-> FALSE,
                observeThrows |-> FALSE]
    /\ obPo = "uncalled"
    /\ obRegistered = FALSE
    /\ obProduced = 0
    /\ obQueue = <<>>
    /\ obTasks = <<>>
    /\ obBatches = <<>>

\* lib/bfcache before any pageshow and any call of onBFCacheRestore
NoNav == [bfcacheRestoreTime |-> -1, listening |-> FALSE, pageshows |-> 0,
          records |-> <<>>]

\* onINP's closure before onINP is called
NoInp == [idle |-> <<>>, flushed |-> 0]

\* The page runs the algorithm a ("none": a library function is driven on its
\* own).
Runs(a) == alg = a /\ inp = NoInp /\ nav = NoNav /\ wi = <<>>

----------------------------------------------------------------------------
(* lib/bindReporter.ts and lib/initMetric.ts *)

\* `let prevValue: number` before its first assignment
Undefined == <<>>

Some(v) == <<v>>

\* prevValue || 0
OrZero(p) == IF p = Undefined THEN 0 ELSE p[1]

getRating_ge(value, thresholds) ==
    IF value >= thresholds[2] THEN "poor"
    ELSE IF value >= thresholds[1] THEN "needs-improvement"
    ELSE "good"

getRating(value, thresholds) ==
    IF value > thresholds[2] THEN "poor"
    ELSE IF value > thresholds[1] THEN "needs-improvement"
    ELSE "good"

\* The record initMetric returns; `value` is Undefined when the argument is
\* absent.  (navigationType is read by no algorithm; the operator
\* navigationType gives it, under SpecNav.)
initMetric(name, value, id) ==
    [name    |-> name,
     value   |-> IF value = Undefined THEN -1 ELSE value[1],
     rating  |-> "good",
     delta   |-> 0,
     entries |-> <<>>,
     id      |-> id]

\* The closure bindReporter creates: neither variable is assigned yet.
bindReporter == [prevValue |-> Undefined, delta |-> Undefined]

\* if (metric.value > 0)
hasValue_ge0(m) == m.value >= 0

hasValue(m) == m.value > 0

\* if (forceReport || reportAllChanges)
wanted_always(forceReport, rAC) == TRUE

wanted(forceReport, rAC) == forceReport \/ rAC

\* delta = metric.value - (prevValue || 0)
deltaOf_value(m, r) == m.value

deltaOf(m, r) == m.value - OrZero(r.prevValue)

\* if (delta || prevValue === undefined)
changed_always(d, r) == TRUE

changed(d, r) == d # 0 \/ r.prevValue = Undefined

\* The reporter without its memory: prevValue is never assigned.
report_forgetful(m, r, rAC, thresholds, forceReport) ==
    IF hasValue(m) /\ wanted(forceReport, rAC)
    THEN LET d == deltaOf(m, r) IN
         IF changed(d, r)
         THEN [metric  |-> [m EXCEPT !.delta = d,
                                     !.rating = getRating(m.value, thresholds)],
               closure |-> r,
               emitted |-> TRUE]
         ELSE [metric |-> m, closure |-> r, emitted |-> FALSE]
    ELSE [metric |-> m, closure |-> r, emitted |-> FALSE]

\* One call report(forceReport) of the reporter with closure r bound to the
\* record m: the record and the closure afterwards, and whether callback(metric)
\* was invoked.
report(m, r, rAC, thresholds, forceReport) ==
    IF hasValue(m) /\ wanted(forceReport, rAC)
    THEN LET d == deltaOf(m, r) IN
         IF changed(d, r)
         THEN [metric  |-> [m EXCEPT !.delta = d,
                                     !.rating = getRating(m.value, thresholds)],
               closure |-> [prevValue |-> Some(m.value), delta |-> Some(d)],
               emitted |-> TRUE]
         ELSE [metric  |-> m,
               closure |-> [r EXCEPT !.delta = Some(d)],
               emitted |-> FALSE]
    ELSE [metric |-> m, closure |-> r, emitted |-> FALSE]

\* What the consumer sees of the record at the moment callback(metric) runs.
Seen(m) == [id |-> m.id, name |-> m.name, value |-> m.value, delta |-> m.delta,
            rating |-> m.rating]

----------------------------------------------------------------------------
(* SpecBind *)

BNames == {"CLS", "LCP"}

BValues == -1 .. 3

BThresholdPairs == {<<1, 3>>, <<2, 3>>}

\* initMetric('CLS', 0) and initMetric(name) as the algorithms call it
BInitial(name, id) ==
    initMetric(name, IF name = "CLS" THEN Some(0) ELSE Undefined, id)

\* runOnce(cb): the wrapper calls cb if its flag is not set yet; the variants
\* say whether a call of the wrapper with the given flag runs cb.
runOnce_always(flag) == TRUE

runOnce(flag) == ~flag

\* The runOnce wrapper of onCLS before its first call: its flag, and how often
\* it was called and ran its callback.
NotCalled == [flag |-> FALSE, calls |-> 0, runs |-> 0]

ClsIdle ==
    /\ workload = "none"
    /\ layoutShiftSupported = FALSE
    /\ reportAllChanges = FALSE
    /\ visibilityState = "visible"
    /\ called = NotCalled
    /\ po = "unset"
    /\ poQueue = <<>>
    /\ nSamples = 0
    /\ now = 0
    /\ sessionValue = 0
    /\ sessionEntries = <<>>
    /\ clsMetrics = <<>>
    /\ clsReports = <<>>
    /\ sharedEntries = {}
    /\ timer0 = "none"
    /\ rafs = <<0, 0>>
    /\ clsCalls = <<>>
    /\ handled = <<>>
    /\ nRestores = 0

\* The operation being performed, with the record, the closure and the number
\* of consumer invocations it starts from.
BLast(op, forceReport) ==
    [op |-> op, force |-> forceReport, metric |-> bMetric, closure |-> bReport,
     calls |-> Len(bCalls)]

BInit ==
    /\ bName \in BNames
    /\ bReportAllChanges \in BOOLEAN
    /\ bThresholds \in BThresholdPairs
    /\ bMetric = BInitial(bName, 1)
    /\ bReport = bindReporter
    /\ bCalls = <<>>
    /\ bNextId = 1
    /\ bOps = 0
    /\ bLast = BLast("init", FALSE)
    /\ ClsIdle
    /\ PageIdle
    /\ InteractionsIdle
    /\ ObserveIdle
    /\ Runs("none")

\* The algorithm assigns metric.value.
BSetValue(v) ==
    /\ bOps < MaxOps
    /\ v # bMetric.value
    /\ bMetric' = [bMetric EXCEPT !.value = v]
    /\ bOps' = bOps + 1
    /\ bLast' = BLast("set", FALSE)
    /\ UNCHANGED <<bName, bReportAllChanges, bThresholds, bReport, bCalls, bNextId>>
    /\ UNCHANGED notBind

\* The algorithm calls report(forceReport).
BReport(forceReport) ==
    /\ bOps < MaxOps
    /\ LET res == report(bMetric, bReport, bReportAllChanges, bThresholds, forceReport) IN
        /\ bMetric' = res.metric
        /\ bReport' = res.closure
        /\ bCalls' = IF res.emitted THEN Append(bCalls, Seen(res.metric)) ELSE bCalls
    /\ bOps' = bOps + 1
    /\ bLast' = BLast("report", forceReport)
    /\ UNCHANGED <<bName, bReportAllChanges, bThresholds, bNextId>>
    /\ UNCHANGED notBind

\* metric = initMetric(...); report = bindReporter(...), as every
\* onBFCacheRestore handler does.
BRebind ==
    /\ bOps < MaxOps
    /\ bMetric' = BInitial(bName, bNextId + 1)
    /\ bReport' = bindReporter
    /\ bNextId' = bNextId + 1
    /\ bOps' = bOps + 1
    /\ bLast' = BLast("rebind", FALSE)
    /\ UNCHANGED <<bName, bReportAllChanges, bThresholds, bCalls>>
    /\ UNCHANGED notBind

BNext ==
    \/ \E v \in BValues : BSetValue(v)
    \/ \E f \in BOOLEAN : BReport(f)
    \/ BRebind

SpecBind == BInit /\ [][BNext]_vars

----------------------------------------------------------------------------
(* onCLS.ts *)

\* CLSThresholds = [0.1, 0.25], in thousandths
CLSThresholds == <<100, 250>>

\* entry.startTime - lastSessionEntry.startTime < 1000
SessionGapMs == 1000

\* entry.startTime - firstSessionEntry.startTime < 5000
SessionSpanMs == 5000

\* A LayoutShift performance entry.
LayoutShift(startTime, value, hadRecentInput) ==
    [startTime |-> startTime, value |-> value, hadRecentInput |-> hadRecentInput]

\* x?.startTime ?? 0 for x = sessionEntries[i] (undefined when out of range)
StartTimeOr0(se, i) == IF i \in 1 .. Len(se) THEN se[i].startTime ELSE 0

inSession_le(sv, se, entry) ==
    /\ sv > 0
    /\ entry.startTime - StartTimeOr0(se, Len(se)) <= SessionGapMs
    /\ entry.startTime - StartTimeOr0(se, 1) < SessionSpanMs

\* The condition under which handleEntries adds the entry to the session
\* (sv, se) instead of starting a new one.
inSession(sv, se, entry) ==
    /\ sv > 0
    /\ entry.startTime - StartTimeOr0(se, Len(se)) < SessionGapMs
    /\ entry.startTime - StartTimeOr0(se, 1) < SessionSpanMs

\* handleEntry works on c = [sessionValue, sessionEntries, orig, detached]:
\* orig is the array sessionEntries referred to when the batch began, and
\* detached says that sessionEntries has been assigned a new array since.
handleEntry_assign(c, entry) ==
    IF entry.hadRecentInput THEN c
    ELSE IF inSession(c.sessionValue, c.sessionEntries, entry)
    THEN [c EXCEPT !.sessionValue = entry.value,
                   !.sessionEntries = Append(@, entry),
                   !.orig = IF c.detached THEN @ ELSE Append(@, entry)]
    ELSE [c EXCEPT !.sessionValue = entry.value,
                   !.sessionEntries = <<entry>>,
                   !.detached = TRUE]

\* The iteration without its test of entry.hadRecentInput.
handleEntry_unfiltered(c, entry) ==
    IF inSession(c.sessionValue, c.sessionEntries, entry)
    THEN [c EXCEPT !.sessionValue = @ + entry.value,
                   !.sessionEntries = Append(@, entry),
                   !.orig = IF c.detached THEN @ ELSE Append(@, entry)]
    ELSE [c EXCEPT !.sessionValue = entry.value,
                   !.sessionEntries = <<entry>>,
                   !.detached = TRUE]

\* One iteration of entries.forEach in handleEntries.
handleEntry(c, entry) ==
    IF entry.hadRecentInput THEN c
    ELSE IF inSession(c.sessionValue, c.sessionEntries, entry)
    THEN [c EXCEPT !.sessionValue = @ + entry.value,
                   !.sessionEntries = Append(@, entry),
                   !.orig = IF c.detached THEN @ ELSE Append(@, entry)]
    ELSE [c EXCEPT !.sessionValue = entry.value,
                   !.sessionEntries = <<entry>>,
                   !.detached = TRUE]

RECURSIVE forEach(_, _)
forEach(c, entries) ==
    IF entries = <<>> THEN c
    ELSE forEach(handleEntry(c, Head(entries)), Tail(entries))

needsUpdate_ne(sv, m) == sv # m.value

\* if (sessionValue > metric.value)
needsUpdate(sv, m) == sv > m.value

\* The state the closure of onCLS works on, as one record.
ClsState ==
    [sessionValue |-> sessionValue, sessionEntries |-> sessionEntries,
     metrics |-> clsMetrics, reports |-> clsReports, shared |-> sharedEntries,
     calls |-> clsCalls]

\* reports[i](forceReport): reporter i is bound to record i.
callReport(st, i, forceReport) ==
    LET res == report(st.metrics[i], st.reports[i], reportAllChanges,
                      CLSThresholds, forceReport) IN
    [st EXCEPT !.metrics[i] = res.metric,
               !.reports[i] = res.closure,
               !.calls = IF res.emitted THEN Append(@, Seen(res.metric)) ELSE @]

\* sessionEntries.push(entry) as the records see it: the records ms[i..] whose
\* entries array is the array that was pushed to now hold orig.
RECURSIVE pushed(_, _, _, _)
pushed(ms, shared, orig, i) ==
    IF i > Len(ms) THEN ms
    ELSE pushed(IF i \in shared THEN [ms EXCEPT ![i].entries = orig] ELSE ms,
                shared, orig, i + 1)

\* handleEntries(entries), with `metric` and `report` the latest assigned.
handleEntries(st, entries) ==
    LET c == forEach([sessionValue |-> st.sessionValue,
                      sessionEntries |-> st.sessionEntries,
                      orig |-> st.sessionEntries,
                      detached |-> FALSE], entries)
        cur == Len(st.metrics)
        st1 == [st EXCEPT !.sessionValue = c.sessionValue,
                          !.sessionEntries = c.sessionEntries,
                          !.metrics = pushed(@, st.shared, c.orig, 1),
                          !.shared = IF c.detached THEN {} ELSE @]
    IN  IF needsUpdate(c.sessionValue, st1.metrics[cur])
        THEN callReport([st1 EXCEPT !.metrics[cur].value = c.sessionValue,
                                    !.metrics[cur].entries = c.sessionEntries,
                                    !.shared = @ \cup {cur}],
                        cur, FALSE)
        ELSE st1

\* The handler onCLS gives to onHidden, with q what po.takeRecords() returns:
\* handleEntries(q), then report(true).
clsOnHidden(st, q) == callReport(handleEntries(st, q), Len(st.metrics), TRUE)

\* n calls of () => report(), one after the other
RECURSIVE callReportTimes(_, _)
callReportTimes(st, n) ==
    IF n = 0 THEN st
    ELSE callReportTimes(callReport(st, Len(st.metrics), FALSE), n - 1)

\* Assign the closure's variables from st.
ClsAssign(st) ==
    /\ sessionValue' = st.sessionValue
    /\ sessionEntries' = st.sessionEntries
    /\ clsMetrics' = st.metrics
    /\ clsReports' = st.reports
    /\ sharedEntries' = st.shared
    /\ clsCalls' = st.calls

NonInput(entries) == SelectSeq(entries, LAMBDA e : ~e.hadRecentInput)

----------------------------------------------------------------------------
(* SpecCLS *)

\* samples of the "mixed" workload
MaxSamples == 2

\* cache restorations
MaxRestores == 1

\* The workloads: what the page does while onCLS runs.
\*   "scenario"  shifts of 0.05, 0.03, 0.02 at t = 0, 500, 900; FCP emits
\*               again after each cache restoration
\*   "mixed"     up to MaxSamples shifts, with and without recent input, at
\*               gaps of 0, 900, 1000 and 1900 ms
\*   "long"      a page that stays visible and shifts every 900 ms up to
\*               t = 4500, then once more 4999 or 5000 ms after the first shift
Workloads == {"scenario", "mixed", "long"}

Scenario ==
    <<LayoutShift(0, 50, FALSE), LayoutShift(500, 30, FALSE), LayoutShift(900, 20, FALSE)>>

MixedTimes == {0, 900, 1900}

\* <<magnitude, hadRecentInput>>
MixedShifts == {<<60, FALSE>>, <<200, FALSE>>, <<60, TRUE>>}

LongTimes == <<{0}, {900}, {1800}, {2700}, {3600}, {4500}, {4999, 5000}>>

\* The layout shifts the page may produce next.
NextShifts ==
    CASE workload = "scenario" ->
            IF nSamples < Len(Scenario) THEN {Scenario[nSamples + 1]} ELSE {}
      [] workload = "mixed" ->
            IF nSamples < MaxSamples
            THEN {LayoutShift(t, s[1], s[2]) :
                     t \in {u \in MixedTimes : u >= now}, s \in MixedShifts}
            ELSE {}
      [] workload = "long" ->
            IF nSamples < Len(LongTimes)
            THEN {LayoutShift(t, 10, FALSE) : t \in LongTimes[nSamples + 1]}
            ELSE {}
      [] OTHER -> {}

\* Whether the workload hides and restores the page.
Lifecycle == workload \in {"scenario", "mixed"}

\* How many FCP emissions the workload has had after the first one, at most.
Repaints == IF workload = "scenario" THEN nRestores ELSE 0

BindIdle ==
    /\ bName = "CLS"
    /\ bReportAllChanges = FALSE
    /\ bThresholds = CLSThresholds
    /\ bMetric = BInitial("CLS", 1)
    /\ bReport = bindReporter
    /\ bCalls = <<>>
    /\ bNextId = 1
    /\ bOps = 0
    /\ bLast = BLast("init", FALSE)

\* po when onCLS returns: observe() is called inside the callback given to
\* onFCP, so nothing observes yet.  The variant observes from the start.
poAtReturn_observing == "observer"

poAtReturn == "unset"

\* onCLS(onReport, opts) has returned: the closure waits for onFCP.
ClsInit ==
    /\ workload \in Workloads
    /\ layoutShiftSupported \in BOOLEAN
    /\ reportAllChanges \in BOOLEAN
    /\ visibilityState = "visible"
    /\ called = NotCalled
    /\ po = poAtReturn
    /\ poQueue = <<>>
    /\ nSamples = 0
    /\ now = 0
    /\ sessionValue = 0
    /\ sessionEntries = <<>>
    /\ clsMetrics = <<>>
    /\ clsReports = <<>>
    /\ sharedEntries = {}
    /\ timer0 = "none"
    /\ rafs = <<0, 0>>
    /\ clsCalls = <<>>
    /\ handled = <<>>
    /\ nRestores = 0
    /\ BindIdle
    /\ PageIdle
    /\ InteractionsIdle
    /\ ObserveIdle
    /\ Runs("CLS")

\* The page shifts its layout: the browser queues a layout-shift entry
\* (buffered: true keeps the entries produced before observe()).
Shift ==
    /\ layoutShiftSupported
    /\ \E e \in NextShifts :
        /\ poQueue' = Append(poQueue, e)
        /\ now' = e.startTime
    /\ nSamples' = nSamples + 1
    /\ UNCHANGED <<workload, layoutShiftSupported, reportAllChanges, visibilityState,
                   called, po, sessionValue, sessionEntries, clsMetrics, clsReports,
                   sharedEntries, timer0, rafs, clsCalls, handled, nRestores>>
    /\ UNCHANGED notCls

\* onFCP invokes the callback onCLS gave it, once for the first paint and once
\* more for each cache restoration: runOnce(...) runs the body of onCLS the
\* first time and nothing afterwards.
FCPReports ==
    /\ called.calls <= Repaints
    /\ called' = [flag  |-> TRUE,
                  calls |-> called.calls + 1,
                  runs  |-> IF runOnce(called.flag) THEN called.runs + 1
                            ELSE called.runs]
    /\ IF runOnce(called.flag)
       THEN /\ clsMetrics' = <<initMetric("CLS", Some(0), 1)>>
            /\ IF layoutShiftSupported
               THEN /\ po' = "observer"
                    /\ clsReports' = <<bindReporter>>
                    /\ timer0' = "pending"
               ELSE /\ po' = "undefined"
                    /\ UNCHANGED <<clsReports, timer0>>
       ELSE UNCHANGED <<clsMetrics, po, clsReports, timer0>>
    /\ UNCHANGED <<workload, layoutShiftSupported, reportAllChanges, visibilityState,
                   poQueue, nSamples, now, sessionValue, sessionEntries,
                   sharedEntries, rafs, clsCalls, handled, nRestores>>
    /\ UNCHANGED notCls

\* The observer delivers what is queued: handleEntries(list.getEntries()).
Deliver ==
    /\ po = "observer"
    /\ poQueue # <<>>
    /\ ClsAssign(handleEntries(ClsState, poQueue))
    /\ handled' = handled \o NonInput(poQueue)
    /\ poQueue' = <<>>
    /\ UNCHANGED <<workload, layoutShiftSupported, reportAllChanges, visibilityState,
                   called, po, nSamples, now, timer0, rafs, nRestores>>
    /\ UNCHANGED notCls

\* setTimeout(report, 0) fires: the reporter bound first, called without
\* arguments.
Timer0 ==
    /\ timer0 = "pending"
    /\ timer0' = "fired"
    /\ ClsAssign(callReport(ClsState, 1, FALSE))
    /\ UNCHANGED <<workload, layoutShiftSupported, reportAllChanges, visibilityState,
                   called, po, poQueue, nSamples, now, rafs, handled, nRestores>>
    /\ UNCHANGED notCls

\* The document becomes hidden: the onHidden handler of onCLS, if registered.
Hide ==
    /\ Lifecycle
    /\ visibilityState = "visible"
    /\ visibilityState' = "hidden"
    /\ IF po = "observer"
       THEN /\ ClsAssign(clsOnHidden(ClsState, poQueue))
            /\ handled' = handled \o NonInput(poQueue)
            /\ poQueue' = <<>>
       ELSE UNCHANGED <<sessionValue, sessionEntries, clsMetrics, clsReports,
                        sharedEntries, clsCalls, handled, poQueue>>
    /\ UNCHANGED <<workload, layoutShiftSupported, reportAllChanges, called, po,
                   nSamples, now, timer0, rafs, nRestores>>
    /\ UNCHANGED notCls

\* The document becomes visible again.
Show ==
    /\ visibilityState = "hidden"
    /\ visibilityState' = "visible"
    /\ UNCHANGED <<workload, layoutShiftSupported, reportAllChanges, called, po,
                   poQueue, nSamples, now, sessionValue, sessionEntries, clsMetrics,
                   clsReports, sharedEntries, timer0, rafs, clsCalls, handled,
                   nRestores>>
    /\ UNCHANGED notCls

\* pageshow with persisted = true: the onBFCacheRestore handler of onCLS, if
\* registered.
BFCacheRestore ==
    /\ visibilityState = "hidden"
    /\ nRestores < MaxRestores
    /\ nRestores' = nRestores + 1
    /\ IF po = "observer"
       THEN /\ sessionValue' = 0
            /\ clsMetrics' = Append(clsMetrics,
                                    initMetric("CLS", Some(0), Len(clsMetrics) + 1))
            /\ clsReports' = Append(clsReports, bindReporter)
            /\ rafs' = <<rafs[1] + 1, rafs[2]>>
            /\ handled' = <<>>
       ELSE UNCHANGED <<sessionValue, clsMetrics, clsReports, rafs, handled>>
    /\ UNCHANGED <<workload, layoutShiftSupported, reportAllChanges, visibilityState,
                   called, po, poQueue, nSamples, now, sessionEntries, sharedEntries,
                   timer0, clsCalls>>
    /\ UNCHANGED notCls

\* An animation frame: the callbacks doubleRAF registered one frame ago run
\* () => report(), those registered since wait one more frame.
Frame ==
    /\ rafs # <<0, 0>>
    /\ ClsAssign(callReportTimes(ClsState, rafs[2]))
    /\ rafs' = <<0, rafs[1]>>
    /\ UNCHANGED <<workload, layoutShiftSupported, reportAllChanges, visibilityState,
                   called, po, poQueue, nSamples, now, timer0, handled, nRestores>>
    /\ UNCHANGED notCls

ClsNext ==
    \/ Shift
    \/ FCPReports
    \/ Deliver
    \/ Timer0
    \/ Hide
    \/ Show
    \/ BFCacheRestore
    \/ Frame

SpecCLS == ClsInit /\ [][ClsNext]_vars

----------------------------------------------------------------------------
(* The page: clock, navigation entry, lib/getVisibilityWatcher.ts *)

\* cache restorations of a page
MaxPageshows == 2

\* Infinity, above every instant of the model
Infinity == 1000000

\* The instants (ms) at which the page's events happen.
Instants == {100, 200, 230, 260, 1500}

\* What the page does while the algorithm runs.
\*   "load"     it is prerendered or not, paints, takes input, is hidden and
\*              shown, and is never restored from the back/forward cache
\*   "restore"  it paints once, is hidden and shown, and is restored from the
\*              back/forward cache up to MaxPageshows times
Tasks == {"load", "restore"}

\* The documents a task starts from.
Documents(t) ==
    {[visibilityState |-> "visible", prerendering |-> FALSE,
      readyState |-> "complete"]}
    \cup IF t = "load"
         THEN {[visibilityState |-> "hidden", prerendering |-> TRUE,
                readyState |-> "complete"]}
         ELSE {}

\* The entries a task lets the browser produce.
Paints == IF task = "load" THEN MaxSamples ELSE 1

\* The restorations a task lets the page go through.
Pageshows == IF task = "load" THEN 0 ELSE MaxPageshows

After(t) == {u \in Instants : u > t}

Succ(t) == CHOOSE u \in After(t) : \A v \in After(t) : u <= v

\* Math.max
Max(a, b) == IF a > b THEN a ELSE b

\* lib/getNavigationEntry.ts: the entry, if its responseStart lies in (0, now)
getNavigationEntry ==
    IF navEntry.responseStart > 0 /\ navEntry.responseStart < clock
    THEN Some(navEntry)
    ELSE Undefined

\* (navEntry && navEntry.activationStart) || 0
getActivationStart ==
    IF getNavigationEntry = Undefined THEN 0 ELSE navEntry.activationStart

\* initHiddenTime() on the document d
initHiddenTime(d) ==
    IF d.visibilityState = "hidden" /\ ~d.prerendering THEN 0 ELSE Infinity

\* getVisibilityWatcher() on the document d: the first call initialises
\* firstHiddenTime, adds the change listeners and registers the restore handler.
getVisibilityWatcher(d) ==
    /\ firstHiddenTime' = IF firstHiddenTime < 0 THEN initHiddenTime(d)
                          ELSE firstHiddenTime
    /\ watcher' = IF firstHiddenTime < 0 THEN [watcher EXCEPT !.listening = TRUE]
                  ELSE watcher

\* A visibilitychange event with this timeStamp on the document d, as the
\* watcher's listener onVisibilityUpdate sees it (if it is still added).
onVisibilityUpdate(d, timeStamp) ==
    IF watcher.listening /\ d.visibilityState = "hidden" /\ firstHiddenTime > -1
    THEN /\ firstHiddenTime' = timeStamp
         /\ watcher' = [watcher EXCEPT !.listening = FALSE]
    ELSE UNCHANGED <<firstHiddenTime, watcher>>

\* The watcher's restore handler, if registered: setTimeout(..., 0).
watcherOnRestore ==
    watcher' = IF firstHiddenTime > -1 THEN [watcher EXCEPT !.timers = @ + 1]
               ELSE watcher

constVars == <<task, opts, supported>>

ownVars == <<lcp, fid, ttfb>>

\* The page before the algorithm is called.
PageInit ==
    /\ task \in Tasks
    /\ doc \in Documents(task)
    /\ clock = 100
    /\ navEntry = [activationStart |-> 0, responseStart |-> 50]
    /\ opts \in [reportAllChanges : BOOLEAN]
    /\ supported \in BOOLEAN
    /\ firstHiddenTime = -1
    /\ watcher = [listening |-> FALSE, timers |-> 0]
    /\ started = "no"
    /\ metrics = <<>>
    /\ reports = <<>>
    /\ calls = <<>>
    /\ observer = "unset"
    /\ queue = <<>>
    /\ produced = 0
    /\ frames = <<<<>>, <<>>>>
    /\ pageshows = 0
    /\ restored = <<>>
    /\ lcp = NoLcp
    /\ fid = NoFid
    /\ ttfb = NoTtfb
    /\ BindIdle
    /\ ClsIdle
    /\ InteractionsIdle
    /\ ObserveIdle

\* Time passes.
Tick ==
    /\ After(clock) # {}
    /\ clock' = Succ(clock)
    /\ UNCHANGED <<doc, navEntry, constVars, firstHiddenTime, watcher, started,
                   algVars, produced, frames, pageshows, restored, ownVars>>
    /\ UNCHANGED notPage

\* The document becomes visible again (visibilitychange): no handler of the
\* algorithms acts.
PageShow ==
    /\ doc.visibilityState = "hidden"
    /\ ~doc.prerendering
    /\ doc' = [doc EXCEPT !.visibilityState = "visible"]
    /\ UNCHANGED <<clock, navEntry, constVars, firstHiddenTime, watcher, started,
                   algVars, produced, frames, pageshows, restored, ownVars>>
    /\ UNCHANGED notPage

\* The timer of the watcher's restore handler fires.
WatcherTimer ==
    /\ watcher.timers > 0
    /\ firstHiddenTime' = initHiddenTime(doc)
    /\ watcher' = [listening |-> TRUE, timers |-> watcher.timers - 1]
    /\ UNCHANGED <<doc, clock, navEntry, constVars, started, algVars, produced,
                   frames, pageshows, restored, ownVars>>
    /\ UNCHANGED notPage

\* The closure variables of the algorithm that runs on the page.
Alg == [metrics |-> metrics, reports |-> reports, calls |-> calls,
        observer |-> observer, queue |-> queue]

AlgAssign(st) ==
    /\ metrics' = st.metrics
    /\ reports' = st.reports
    /\ calls' = st.calls
    /\ observer' = st.observer
    /\ queue' = st.queue

\* reports[i](forceReport): reporter i is bound to record i.
callReporter(st, i, thresholds, forceReport) ==
    LET res == report(st.metrics[i], st.reports[i], opts.reportAllChanges,
                      thresholds, forceReport) IN
    [st EXCEPT !.metrics[i] = res.metric,
               !.reports[i] = res.closure,
               !.calls = IF res.emitted THEN Append(@, Seen(res.metric)) ELSE @]

\* The restore handler shared by onLCP and onFCP up to doubleRAF: a fresh
\* record and reporter, and a callback that waits for two frames.
freshRecord(name) ==
    /\ metrics' = Append(metrics, initMetric(name, Undefined, Len(metrics) + 1))
    /\ reports' = Append(reports, bindReporter)
    /\ restored' = Append(restored, [id |-> Len(metrics) + 1, timeStamp |-> clock,
                                     now |-> -1])
    /\ frames' = <<Append(frames[1], Len(restored) + 1), frames[2]>>

----------------------------------------------------------------------------
(* onLCP (src/unnamed/part_000) and whenIdle (src/unnamed/part_003) *)

\* whenIdle callbacks that may be pending at once
MaxIdle == 2

LCPThresholds == <<2500, 4000>>

\* if (entry.startTime < visibilityWatcher.firstHiddenTime)
lcpAccepts_always(entry, fht) == TRUE

lcpAccepts(entry, fht) == entry.startTime < fht

\* The forEach callback of onLCP's handleEntries, on the latest record.
lcpHandleEntry(st, entry) ==
    LET cur == Len(st.metrics) IN
    IF lcpAccepts(entry, firstHiddenTime)
    THEN callReporter(
             [st EXCEPT !.metrics[cur].value =
                            Max(entry.startTime - getActivationStart, 0),
                        !.metrics[cur].entries = <<entry>>],
             cur, LCPThresholds, FALSE)
    ELSE st

RECURSIVE lcpForEach(_, _)
lcpForEach(st, entries) ==
    IF entries = <<>> THEN st
    ELSE lcpForEach(lcpHandleEntry(st, Head(entries)), Tail(entries))

\* entries.slice(-1)
sliceLast(entries) ==
    IF entries = <<>> THEN <<>> ELSE <<entries[Len(entries)]>>

\* handleEntries(entries) of onLCP
lcpHandleEntries(st, entries) ==
    lcpForEach(st, IF opts.reportAllChanges THEN entries ELSE sliceLast(entries))

\* po.takeRecords()
takeRecords(st) == IF st.observer = "observing" THEN st.queue ELSE <<>>

\* Whether a call of stopListening runs its body: the runOnce wrapper has not
\* been called and the record is not in reportedMetricIDs.
mayStop_always(l, m) == TRUE

mayStop(l, m) == ~l.called /\ m.id \notin l.reportedMetricIDs

\* One call of stopListening on s = [alg, lcp].
stopListening(s) ==
    LET cur == Len(s.alg.metrics)
        id  == s.alg.metrics[cur].id
        l1  == [s.lcp EXCEPT !.called = TRUE,
                             !.tries = IF @ < 2 THEN @ + 1 ELSE @]
    IN  IF mayStop(s.lcp, s.alg.metrics[cur])
        THEN LET a1 == lcpHandleEntries(s.alg, takeRecords(s.alg))
                 a2 == callReporter([a1 EXCEPT !.observer = "disconnected",
                                               !.queue = <<>>],
                                    cur, LCPThresholds, TRUE)
             IN  [alg |-> a2,
                  lcp |-> [l1 EXCEPT
                             !.reportedMetricIDs = @ \cup {id},
                             !.stops = Append(@, id),
                             !.finals = IF Len(a2.calls) > Len(a1.calls)
                                        THEN Append(@, id) ELSE @]]
        ELSE [alg |-> s.alg, lcp |-> l1]

\* n calls of stopListening, one after the other
RECURSIVE stopListeningTimes(_, _)
stopListeningTimes(s, n) ==
    IF n = 0 THEN s ELSE stopListeningTimes(stopListening(s), n - 1)

\* The doubleRAF callbacks of the restorations ks run at time t, in order, on
\* s = [alg, lcp, restored]: each writes the latest record.
RECURSIVE lcpRafs(_, _, _)
lcpRafs(s, ks, t) ==
    IF ks = <<>> THEN s
    ELSE LET k   == Head(ks)
             cur == Len(s.alg.metrics)
             a1  == [s.alg EXCEPT
                       !.metrics[cur].value = t - s.restored[k].timeStamp]
         IN  lcpRafs([alg |-> callReporter(a1, cur, LCPThresholds, TRUE),
                      lcp |-> [s.lcp EXCEPT !.reportedMetricIDs =
                                               @ \cup {a1.metrics[cur].id}],
                      restored |-> [s.restored EXCEPT ![k].now = t]],
                     Tail(ks), t)

\* The whenActivated callback of onLCP, on the document d.
lcpSetup(d) ==
    /\ started' = "yes"
    /\ getVisibilityWatcher(d)
    /\ metrics' = <<initMetric("LCP", Undefined, 1)>>
    /\ observer' = IF supported THEN "observing" ELSE "undefined"
    /\ reports' = IF supported THEN <<bindReporter>> ELSE <<>>
    /\ UNCHANGED <<calls, queue>>

\* Whether the handlers inside `if (po)` are registered.
lcpListening == started = "yes" /\ observer \in {"observing", "disconnected"}

----------------------------------------------------------------------------
(* SpecLCP *)

LcpInit == PageInit /\ Runs("LCP")

\* onLCP(onReport, opts) is called: whenActivated runs the callback now, or
\* keeps it until the prerendered document is activated.
OnLCP ==
    /\ started = "no"
    /\ IF doc.prerendering
       THEN /\ started' = "waiting"
            /\ UNCHANGED <<firstHiddenTime, watcher, algVars>>
       ELSE lcpSetup(doc)
    /\ UNCHANGED <<doc, clock, navEntry, constVars, produced, frames, pageshows,
                   restored, ownVars>>
    /\ UNCHANGED notPage

\* prerenderingchange: the document is activated; a waiting callback runs.
LcpActivate ==
    /\ doc.prerendering
    /\ clock > 0
    /\ doc' = [doc EXCEPT !.prerendering = FALSE, !.visibilityState = "visible"]
    /\ navEntry' = [navEntry EXCEPT !.activationStart = clock]
    /\ IF started = "waiting"
       THEN lcpSetup(doc')
       ELSE UNCHANGED <<started, firstHiddenTime, watcher, algVars>>
    /\ UNCHANGED <<clock, constVars, produced, frames, pageshows, restored,
                   ownVars>>
    /\ UNCHANGED notPage

\* The browser paints a larger element and holds a largest-contentful-paint
\* entry for the observer (buffered: true keeps those produced before
\* observe()).
LcpPaint ==
    /\ supported
    /\ produced < Paints
    /\ observer # "disconnected"
    /\ doc.visibilityState = "visible" \/ doc.prerendering
    /\ queue' = Append(queue, [startTime |-> clock])
    /\ produced' = produced + 1
    /\ UNCHANGED <<doc, clock, navEntry, constVars, firstHiddenTime, watcher,
                   started, metrics, reports, calls, observer, frames, pageshows,
                   restored, ownVars>>
    /\ UNCHANGED notPage

\* The observer delivers what is queued: handleEntries(list.getEntries()).
LcpDeliver ==
    /\ observer = "observing"
    /\ queue # <<>>
    /\ AlgAssign([lcpHandleEntries(Alg, queue) EXCEPT !.queue = <<>>])
    /\ UNCHANGED <<doc, clock, navEntry, constVars, firstHiddenTime, watcher,
                   started, produced, frames, pageshows, restored, ownVars>>
    /\ UNCHANGED notPage

\* keydown or click: () => whenIdle(stopListening).  whenIdle wraps the
\* callback in runOnce and runs it now if the document is hidden; otherwise it
\* asks for an idle callback and registers the wrapper with onHidden.
LcpInput ==
    /\ task = "load"
    /\ lcpListening
    /\ ~doc.prerendering
    /\ lcp.idle < MaxIdle
    /\ \E type \in {"keydown", "click"} :
        IF doc.visibilityState = "hidden"
        THEN LET s == stopListening([alg |-> Alg, lcp |-> lcp]) IN
             /\ AlgAssign(s.alg)
             /\ lcp' = s.lcp
        ELSE /\ lcp' = [lcp EXCEPT !.idle = @ + 1]
             /\ UNCHANGED algVars
    /\ UNCHANGED <<doc, clock, navEntry, constVars, firstHiddenTime, watcher,
                   started, produced, frames, pageshows, restored, fid, ttfb>>
    /\ UNCHANGED notPage

\* An idle callback runs one whenIdle wrapper.
LcpIdle ==
    /\ lcp.idle > 0
    /\ LET s == stopListening([alg |-> Alg, lcp |-> lcp]) IN
       /\ AlgAssign(s.alg)
       /\ lcp' = [s.lcp EXCEPT !.idle = @ - 1]
    /\ UNCHANGED <<doc, clock, navEntry, constVars, firstHiddenTime, watcher,
                   started, produced, frames, pageshows, restored, fid, ttfb>>
    /\ UNCHANGED notPage

\* The document becomes hidden: the onHidden callbacks (stopListening, then
\* the pending whenIdle wrappers), then the watcher's listener.
LcpHide ==
    /\ doc.visibilityState = "visible"
    /\ doc' = [doc EXCEPT !.visibilityState = "hidden"]
    /\ IF lcpListening
       THEN LET s == stopListeningTimes([alg |-> Alg, lcp |-> lcp],
                                        1 + lcp.idle) IN
            /\ AlgAssign(s.alg)
            /\ lcp' = [s.lcp EXCEPT !.idle = 0]
       ELSE UNCHANGED <<algVars, lcp>>
    /\ onVisibilityUpdate(doc', clock)
    /\ UNCHANGED <<clock, navEntry, constVars, started, produced, frames,
                   pageshows, restored, fid, ttfb>>
    /\ UNCHANGED notPage

\* pageshow with persisted = true at timeStamp = clock: the restore handlers
\* of the watcher and of onLCP, if registered.
LcpRestore ==
    /\ doc.visibilityState = "hidden"
    /\ ~doc.prerendering
    /\ pageshows < Pageshows
    /\ pageshows' = pageshows + 1
    /\ doc' = [doc EXCEPT !.visibilityState = "visible"]
    /\ watcherOnRestore
    /\ IF lcpListening
       THEN freshRecord("LCP")
       ELSE UNCHANGED <<metrics, reports, restored, frames>>
    /\ UNCHANGED <<clock, navEntry, constVars, firstHiddenTime, started, calls,
                   observer, queue, produced, ownVars>>
    /\ UNCHANGED notPage

\* An animation frame, some time later: the doubleRAF callbacks registered one
\* frame ago run, those registered since wait one more frame.
LcpFrame ==
    /\ doc.visibilityState = "visible"
    /\ frames # <<<<>>, <<>>>>
    /\ After(clock) # {}
    /\ clock' = Succ(clock)
    /\ LET s == lcpRafs([alg |-> Alg, lcp |-> lcp, restored |-> restored],
                        frames[2], clock') IN
       /\ AlgAssign(s.alg)
       /\ lcp' = s.lcp
       /\ restored' = s.restored
    /\ frames' = <<<<>>, frames[1]>>
    /\ UNCHANGED <<doc, navEntry, constVars, firstHiddenTime, watcher, started,
                   produced, pageshows, fid, ttfb>>
    /\ UNCHANGED notPage

LcpNext ==
    \/ OnLCP
    \/ LcpActivate
    \/ LcpPaint
    \/ LcpDeliver
    \/ LcpInput
    \/ LcpIdle
    \/ LcpHide
    \/ LcpRestore
    \/ LcpFrame
    \/ Tick
    \/ PageShow
    \/ WatcherTimer

SpecLCP == LcpInit /\ [][LcpNext]_vars

----------------------------------------------------------------------------
(* onFCP.ts *)

FCPThresholds == <<1800, 3000>>

\* The paint entries of a document, in the order the browser produces them:
\* first-paint and first-contentful-paint, or (a browser without first-paint)
\* first-contentful-paint alone.
PaintNames ==
    IF task = "load" THEN <<"first-paint", "first-contentful-paint">>
    ELSE <<"first-contentful-paint">>

\* if (entry.name === 'first-contentful-paint')
isFCP_any(entry) == TRUE

isFCP(entry) == entry.name = "first-contentful-paint"

\* The forEach callback of onFCP's handleEntries, on the latest record.
fcpHandleEntry(st, entry) ==
    LET cur == Len(st.metrics) IN
    IF isFCP(entry)
    THEN LET st1 == [st EXCEPT !.observer = "disconnected"] IN
         IF entry.startTime < firstHiddenTime
         THEN callReporter(
                  [st1 EXCEPT !.metrics[cur].value =
                                  Max(entry.startTime - getActivationStart, 0),
                              !.metrics[cur].entries = Append(@, entry)],
                  cur, FCPThresholds, TRUE)
         ELSE st1
    ELSE st

\* handleEntries(entries) of onFCP
RECURSIVE fcpHandleEntries(_, _)
fcpHandleEntries(st, entries) ==
    IF entries = <<>> THEN st
    ELSE fcpHandleEntries(fcpHandleEntry(st, Head(entries)), Tail(entries))

\* The doubleRAF callbacks of the restorations ks run at time t, in order, on
\* s = [alg, restored]: each writes the latest record.
RECURSIVE fcpRafs(_, _, _)
fcpRafs(s, ks, t) ==
    IF ks = <<>> THEN s
    ELSE LET k   == Head(ks)
             cur == Len(s.alg.metrics)
             a1  == [s.alg EXCEPT
                       !.metrics[cur].value = t - s.restored[k].timeStamp]
         IN  fcpRafs([alg |-> callReporter(a1, cur, FCPThresholds, TRUE),
                      restored |-> [s.restored EXCEPT ![k].now = t]],
                     Tail(ks), t)

\* The whenActivated callback of onFCP, on the document d.
fcpSetup(d) ==
    /\ started' = "yes"
    /\ getVisibilityWatcher(d)
    /\ metrics' = <<initMetric("FCP", Undefined, 1)>>
    /\ observer' = IF supported THEN "observing" ELSE "undefined"
    /\ reports' = IF supported THEN <<bindReporter>> ELSE <<>>
    /\ UNCHANGED <<calls, queue>>

----------------------------------------------------------------------------
(* SpecFCP *)

FcpInit == PageInit /\ Runs("FCP")

\* onFCP(onReport, opts) is called: whenActivated runs the callback now, or
\* keeps it until the prerendered document is activated.
OnFCP ==
    /\ started = "no"
    /\ IF doc.prerendering
       THEN /\ started' = "waiting"
            /\ UNCHANGED <<firstHiddenTime, watcher, algVars>>
       ELSE fcpSetup(doc)
    /\ UNCHANGED <<doc, clock, navEntry, constVars, produced, frames, pageshows,
                   restored, ownVars>>
    /\ UNCHANGED notPage

\* prerenderingchange: the document is activated; a waiting callback runs.
FcpActivate ==
    /\ doc.prerendering
    /\ clock > 0
    /\ doc' = [doc EXCEPT !.prerendering = FALSE, !.visibilityState = "visible"]
    /\ navEntry' = [navEntry EXCEPT !.activationStart = clock]
    /\ IF started = "waiting"
       THEN fcpSetup(doc')
       ELSE UNCHANGED <<started, firstHiddenTime, watcher, algVars>>
    /\ UNCHANGED <<clock, constVars, produced, frames, pageshows, restored,
                   ownVars>>
    /\ UNCHANGED notPage

\* The browser paints for the first time and holds the paint entry for the
\* observer (buffered: true keeps those produced before observe()).
FcpPaint ==
    /\ supported
    /\ produced < Len(PaintNames)
    /\ doc.visibilityState = "visible" \/ doc.prerendering
    /\ produced' = produced + 1
    /\ queue' = IF observer = "disconnected" THEN queue
                ELSE Append(queue, [name |-> PaintNames[produced + 1],
                                    startTime |-> clock])
    /\ UNCHANGED <<doc, clock, navEntry, constVars, firstHiddenTime, watcher,
                   started, metrics, reports, calls, observer, frames, pageshows,
                   restored, ownVars>>
    /\ UNCHANGED notPage

\* The observer delivers what is queued: handleEntries(list.getEntries()).
FcpDeliver ==
    /\ observer = "observing"
    /\ queue # <<>>
    /\ AlgAssign([fcpHandleEntries(Alg, queue) EXCEPT !.queue = <<>>])
    /\ UNCHANGED <<doc, clock, navEntry, constVars, firstHiddenTime, watcher,
                   started, produced, frames, pageshows, restored, ownVars>>
    /\ UNCHANGED notPage

\* The document becomes hidden: onFCP has no hidden handler, the watcher's
\* listener runs.
FcpHide ==
    /\ doc.visibilityState = "visible"
    /\ doc' = [doc EXCEPT !.visibilityState = "hidden"]
    /\ onVisibilityUpdate(doc', clock)
    /\ UNCHANGED <<clock, navEntry, constVars, started, algVars, produced, frames,
                   pageshows, restored, ownVars>>
    /\ UNCHANGED notPage

\* pageshow with persisted = true at timeStamp = clock: the restore handlers
\* of the watcher and of onFCP, if registered.
FcpRestore ==
    /\ doc.visibilityState = "hidden"
    /\ ~doc.prerendering
    /\ pageshows < Pageshows
    /\ pageshows' = pageshows + 1
    /\ doc' = [doc EXCEPT !.visibilityState = "visible"]
    /\ watcherOnRestore
    /\ IF started = "yes" /\ observer \in {"observing", "disconnected"}
       THEN freshRecord("FCP")
       ELSE UNCHANGED <<metrics, reports, restored, frames>>
    /\ UNCHANGED <<clock, navEntry, constVars, firstHiddenTime, started, calls,
                   observer, queue, produced, ownVars>>
    /\ UNCHANGED notPage

\* An animation frame, some time later: the doubleRAF callbacks registered one
\* frame ago run, those registered since wait one more frame.
FcpFrame ==
    /\ doc.visibilityState = "visible"
    /\ frames # <<<<>>, <<>>>>
    /\ After(clock) # {}
    /\ clock' = Succ(clock)
    /\ LET s == fcpRafs([alg |-> Alg, restored |-> restored], frames[2], clock') IN
       /\ AlgAssign(s.alg)
       /\ restored' = s.restored
    /\ frames' = <<<<>>, frames[1]>>
    /\ UNCHANGED <<doc, navEntry, constVars, firstHiddenTime, watcher, started,
                   produced, pageshows, ownVars>>
    /\ UNCHANGED notPage

FcpNext ==
    \/ OnFCP
    \/ FcpActivate
    \/ FcpPaint
    \/ FcpDeliver
    \/ FcpHide
    \/ FcpRestore
    \/ FcpFrame
    \/ Tick
    \/ PageShow
    \/ WatcherTimer

SpecFCP == FcpInit /\ [][FcpNext]_vars

----------------------------------------------------------------------------
(* onFID.ts *)

FIDThresholds == <<100, 300>>

\* processingStart - startTime of a first input, as the browser and as the
\* firstInputPolyfill measure it.
Delays == {8, 16}

\* handleEntry(entry) of onFID, on the latest record.
fidHandleEntry(st, entry) ==
    LET cur == Len(st.metrics) IN
    IF entry.startTime < firstHiddenTime
    THEN callReporter(
             [st EXCEPT !.metrics[cur].value =
                            entry.processingStart - entry.startTime,
                        !.metrics[cur].entries = Append(@, entry)],
             cur, FIDThresholds, TRUE)
    ELSE st

\* handleEntries(entries) of onFID
RECURSIVE fidHandleEntries(_, _)
fidHandleEntries(st, entries) ==
    IF entries = <<>> THEN st
    ELSE fidHandleEntries(fidHandleEntry(st, Head(entries)), Tail(entries))

\* The runOnce handler onFID gives to onHidden, on s = [alg, called]:
\* handleEntries(po.takeRecords()), then po.disconnect().
fidOnHidden(s) ==
    IF s.called THEN s
    ELSE [alg    |-> [fidHandleEntries(s.alg, takeRecords(s.alg))
                        EXCEPT !.observer = "disconnected", !.queue = <<>>],
          called |-> TRUE]

\* The whenActivated callback of onFID, on the document d.
fidSetup(d) ==
    /\ started' = "yes"
    /\ getVisibilityWatcher(d)
    /\ metrics' = <<initMetric("FID", Undefined, 1)>>
    /\ observer' = IF supported THEN "observing" ELSE "undefined"
    /\ reports' = <<bindReporter>>
    /\ fid' = [fid EXCEPT !.polyfill = "armed"]
    /\ UNCHANGED <<calls, queue>>

----------------------------------------------------------------------------
(* SpecFID *)

FidInit == PageInit /\ Runs("FID")

\* onFID(onReport, opts) is called: whenActivated runs the callback now, or
\* keeps it until the prerendered document is activated.
OnFID ==
    /\ started = "no"
    /\ IF doc.prerendering
       THEN /\ started' = "waiting"
            /\ UNCHANGED <<firstHiddenTime, watcher, algVars, fid>>
       ELSE fidSetup(doc)
    /\ UNCHANGED <<doc, clock, navEntry, constVars, produced, frames, pageshows,
                   restored, lcp, ttfb>>
    /\ UNCHANGED notPage

\* prerenderingchange: the document is activated; a waiting callback runs.
FidActivate ==
    /\ doc.prerendering
    /\ clock > 0
    /\ doc' = [doc EXCEPT !.prerendering = FALSE, !.visibilityState = "visible"]
    /\ navEntry' = [navEntry EXCEPT !.activationStart = clock]
    /\ IF started = "waiting"
       THEN fidSetup(doc')
       ELSE UNCHANGED <<started, firstHiddenTime, watcher, algVars, fid>>
    /\ UNCHANGED <<clock, constVars, produced, frames, pageshows, restored, lcp,
                   ttfb>>
    /\ UNCHANGED notPage

\* The user's input (pointer or key) on the visible document.  For the first
\* input of the document the browser holds a first-input entry for the
\* observer; an armed firstInputPolyfill measures the input itself and calls
\* handleEntry with its own entry.
FidInput ==
    /\ doc.visibilityState = "visible"
    /\ ~fid.firstInput \/ fid.polyfill = "armed"
    /\ \E native, manual \in Delays :
        LET st1 == IF supported /\ ~fid.firstInput /\ observer # "disconnected"
                   THEN [Alg EXCEPT !.queue =
                            Append(@, [startTime |-> clock,
                                       processingStart |-> clock + native])]
                   ELSE Alg
            st2 == IF fid.polyfill = "armed"
                   THEN fidHandleEntry(st1, [startTime |-> clock,
                                             processingStart |-> clock + manual])
                   ELSE st1
        IN  AlgAssign(st2)
    /\ produced' = IF fid.firstInput THEN produced ELSE produced + 1
    /\ fid' = [fid EXCEPT !.firstInput = TRUE,
                          !.polyfill = IF @ = "armed" THEN "fired" ELSE @]
    /\ UNCHANGED <<doc, clock, navEntry, constVars, firstHiddenTime, watcher,
                   started, frames, pageshows, restored, lcp, ttfb>>
    /\ UNCHANGED notPage

\* The observer delivers what is queued: handleEntries(list.getEntries()).
FidDeliver ==
    /\ observer = "observing"
    /\ queue # <<>>
    /\ AlgAssign([fidHandleEntries(Alg, queue) EXCEPT !.queue = <<>>])
    /\ UNCHANGED <<doc, clock, navEntry, constVars, firstHiddenTime, watcher,
                   started, produced, frames, pageshows, restored, ownVars>>
    /\ UNCHANGED notPage

\* The document becomes hidden: the runOnce handler onFID gave to onHidden, if
\* registered, then the watcher's listener.
FidHide ==
    /\ doc.visibilityState = "visible"
    /\ doc' = [doc EXCEPT !.visibilityState = "hidden"]
    /\ IF started = "yes" /\ observer \in {"observing", "disconnected"}
       THEN /\ fid' = [fid EXCEPT !.called = TRUE]
            /\ AlgAssign(fidOnHidden([alg |-> Alg, called |-> fid.called]).alg)
       ELSE UNCHANGED <<algVars, fid>>
    /\ onVisibilityUpdate(doc', clock)
    /\ UNCHANGED <<clock, navEntry, constVars, started, produced, frames,
                   pageshows, restored, lcp, ttfb>>
    /\ UNCHANGED notPage

\* pageshow with persisted = true: the restore handlers of the watcher and of
\* onFID, if registered; the polyfill is reset and armed again.
FidRestore ==
    /\ doc.visibilityState = "hidden"
    /\ ~doc.prerendering
    /\ pageshows < Pageshows
    /\ pageshows' = pageshows + 1
    /\ doc' = [doc EXCEPT !.visibilityState = "visible"]
    /\ watcherOnRestore
    /\ IF started = "yes" /\ observer \in {"observing", "disconnected"}
       THEN /\ metrics' = Append(metrics,
                                 initMetric("FID", Undefined, Len(metrics) + 1))
            /\ reports' = Append(reports, bindReporter)
            /\ fid' = [fid EXCEPT !.polyfill = "armed", !.old = Len(metrics)]
       ELSE /\ fid' = [fid EXCEPT !.old = Len(metrics)]
            /\ UNCHANGED <<metrics, reports>>
    /\ UNCHANGED <<clock, navEntry, constVars, firstHiddenTime, started, calls,
                   observer, queue, produced, frames, restored, lcp, ttfb>>
    /\ UNCHANGED notPage

FidNext ==
    \/ OnFID
    \/ FidActivate
    \/ FidInput
    \/ FidDeliver
    \/ FidHide
    \/ FidRestore
    \/ Tick
    \/ PageShow
    \/ WatcherTimer

SpecFID == FidInit /\ [][FidNext]_vars

----------------------------------------------------------------------------
(* onTTFB.ts *)

TTFBThresholds == <<800, 1800>>

MaxLoads == 2

\* The load events a task lets the window see.
Loads == IF task = "load" THEN MaxLoads ELSE 1

\* navigationEntry.responseStart: 0 is a response that has not started.
ResponseStarts == {0, 50}

\* whenReady(callback) on the document d, as a change of onTTFB's bookkeeping
\* t: wait for activation, wait for load, or yield one tick.
whenReady(t, d) ==
    IF d.prerendering THEN [t EXCEPT !.waiting = @ + 1]
    ELSE IF d.readyState # "complete" THEN [t EXCEPT !.listeners = @ + 1]
    ELSE [t EXCEPT !.timers = @ + 1]

RECURSIVE whenReadyTimes(_, _, _)
whenReadyTimes(t, d, n) ==
    IF n = 0 THEN t ELSE whenReadyTimes(whenReady(t, d), d, n - 1)

\* Math.max(navigationEntry.responseStart - getActivationStart(), 0)
ttfbValue == Max(navEntry.responseStart - getActivationStart, 0)

\* The callback onTTFB gives to whenReady, on the latest record.
ttfbCallback(st) ==
    LET cur == Len(st.metrics) IN
    IF getNavigationEntry = Undefined THEN st
    ELSE callReporter(
             [st EXCEPT !.metrics[cur].value = ttfbValue,
                        !.metrics[cur].entries = <<navEntry>>],
             cur, TTFBThresholds, TRUE)

\* The restore handlers onTTFB registered, n of them, called in turn: a fresh
\* record with value 0, a fresh reporter, report(true).
RECURSIVE ttfbRestores(_, _)
ttfbRestores(st, n) ==
    IF n = 0 THEN st
    ELSE LET id == Len(st.metrics) + 1
             fresh == [st EXCEPT
                         !.metrics = Append(@, initMetric("TTFB", Some(0), id)),
                         !.reports = Append(@, bindReporter)]
         IN  ttfbRestores(callReporter(fresh, id, TTFBThresholds, TRUE), n - 1)

----------------------------------------------------------------------------
(* SpecTTFB *)

TtfbInit ==
    /\ task \in Tasks
    /\ doc \in {[d EXCEPT !.readyState = r] :
                   d \in Documents(task), r \in {"loading", "complete"}}
    /\ clock = 100
    /\ navEntry \in [activationStart : {0}, responseStart : ResponseStarts]
    /\ opts \in [reportAllChanges : BOOLEAN]
    /\ supported = TRUE
    /\ firstHiddenTime = -1
    /\ watcher = [listening |-> FALSE, timers |-> 0]
    /\ started = "no"
    /\ metrics = <<>>
    /\ reports = <<>>
    /\ calls = <<>>
    /\ observer = "unset"
    /\ queue = <<>>
    /\ produced = 0
    /\ frames = <<<<>>, <<>>>>
    /\ pageshows = 0
    /\ restored = <<>>
    /\ lcp = NoLcp
    /\ fid = NoFid
    /\ ttfb = NoTtfb
    /\ BindIdle
    /\ ClsIdle
    /\ InteractionsIdle
    /\ ObserveIdle
    /\ Runs("TTFB")

\* onTTFB(onReport, opts) is called.
OnTTFB ==
    /\ started = "no"
    /\ started' = "yes"
    /\ metrics' = <<initMetric("TTFB", Undefined, 1)>>
    /\ reports' = <<bindReporter>>
    /\ ttfb' = whenReady(ttfb, doc)
    /\ UNCHANGED <<doc, clock, navEntry, constVars, firstHiddenTime, watcher,
                   calls, observer, queue, produced, frames, pageshows, restored,
                   lcp, fid>>
    /\ UNCHANGED notPage

\* prerenderingchange: the document is activated; the callbacks whenReady gave
\* to whenActivated run.
TtfbActivate ==
    /\ doc.prerendering
    /\ doc' = [doc EXCEPT !.prerendering = FALSE, !.visibilityState = "visible"]
    /\ navEntry' = [navEntry EXCEPT !.activationStart = clock]
    /\ ttfb' = whenReadyTimes([ttfb EXCEPT !.waiting = 0], doc', ttfb.waiting)
    /\ UNCHANGED <<clock, constVars, firstHiddenTime, watcher, started, algVars,
                   produced, frames, pageshows, restored, lcp, fid>>
    /\ UNCHANGED notPage

\* A load event reaches the window: the document is complete, and every
\* listener whenReady added (none is removed) calls whenReady again.
TtfbLoad ==
    /\ ttfb.loads < Loads
    /\ doc' = [doc EXCEPT !.readyState = "complete"]
    /\ ttfb' = whenReadyTimes([ttfb EXCEPT !.loads = @ + 1], doc', ttfb.listeners)
    /\ UNCHANGED <<clock, navEntry, constVars, firstHiddenTime, watcher, started,
                   algVars, produced, frames, pageshows, restored, lcp, fid>>
    /\ UNCHANGED notPage

\* A timer of whenReady fires: the callback of onTTFB runs; with a navigation
\* entry it also registers a restore handler.
TtfbTimer ==
    /\ ttfb.timers > 0
    /\ AlgAssign(ttfbCallback(Alg))
    /\ ttfb' = IF getNavigationEntry = Undefined
               THEN [ttfb EXCEPT !.timers = @ - 1]
               ELSE [ttfb EXCEPT !.timers = @ - 1,
                                 !.handlers = @ + 1,
                                 !.computed = Append(@, ttfbValue)]
    /\ UNCHANGED <<doc, clock, navEntry, constVars, firstHiddenTime, watcher,
                   started, produced, frames, pageshows, restored, lcp, fid>>
    /\ UNCHANGED notPage

\* The document becomes hidden; onTTFB has no handler for it.
TtfbHide ==
    /\ doc.visibilityState = "visible"
    /\ doc' = [doc EXCEPT !.visibilityState = "hidden"]
    /\ UNCHANGED <<clock, navEntry, constVars, firstHiddenTime, watcher, started,
                   algVars, produced, frames, pageshows, restored, ownVars>>
    /\ UNCHANGED notPage

\* pageshow with persisted = true: the restore handlers of onTTFB.
TtfbRestore ==
    /\ doc.visibilityState = "hidden"
    /\ ~doc.prerendering
    /\ pageshows < Pageshows
    /\ pageshows' = pageshows + 1
    /\ doc' = [doc EXCEPT !.visibilityState = "visible"]
    /\ AlgAssign(ttfbRestores(Alg, ttfb.handlers))
    /\ restored' = Append(restored, [id |-> Len(metrics) + ttfb.handlers,
                                     timeStamp |-> clock, now |-> -1])
    /\ UNCHANGED <<clock, navEntry, constVars, firstHiddenTime, watcher, started,
                   produced, frames, ownVars>>
    /\ UNCHANGED notPage

TtfbNext ==
    \/ OnTTFB
    \/ TtfbActivate
    \/ TtfbLoad
    \/ TtfbTimer
    \/ TtfbHide
    \/ TtfbRestore
    \/ Tick
    \/ PageShow

SpecTTFB == TtfbInit /\ [][TtfbNext]_vars

----------------------------------------------------------------------------
(* lib/interactions.ts *)

MAX_INTERACTIONS_TO_CONSIDER == 10

MaxInteractions == 11

MaxEntries == 4

\* entry.duration of the samples
Durations == {40, 80, 120}

\* entry.startTime of the samples of one interaction
StartTimes == {100, 108}

\* if (!(entry.interactionId || entry.entryType === 'first-input')) return
qualifies(entry) ==
    entry.interactionId # 0 \/ entry.entryType = "first-input"

\* minLongestInteraction?.latency ?? 0
minLatencyOr0(list) ==
    IF list = <<>> THEN 0 ELSE list[Len(list)].latency

\* The condition under which processInteractionEntry takes the entry.
admits(list, map, entry) ==
    \/ entry.interactionId \in map
    \/ Len(list) < MAX_INTERACTIONS_TO_CONSIDER
    \/ entry.duration > minLatencyOr0(list)

\* The update that leaves existingInteraction as it is.
mergeEntry_keep(interaction, entry) == interaction

\* The update of existingInteraction by the entry.
mergeEntry(interaction, entry) ==
    IF entry.duration > interaction.latency
    THEN [interaction EXCEPT !.entries = <<entry>>, !.latency = entry.duration]
    ELSE IF /\ entry.duration = interaction.latency
            /\ entry.startTime = interaction.entries[1].startTime
         THEN [interaction EXCEPT !.entries = Append(@, entry)]
         ELSE interaction

\* The list after the map's interaction of the entry's id, which is an element
\* of the list, is updated.
RECURSIVE mergeExisting(_, _)
mergeExisting(list, entry) ==
    IF list = <<>> THEN <<>>
    ELSE <<IF Head(list).id = entry.interactionId
           THEN mergeEntry(Head(list), entry)
           ELSE Head(list)>>
         \o mergeExisting(Tail(list), entry)

\* One step of the (stable) sort: x goes behind the elements that are not
\* shorter.
RECURSIVE insertByLatency(_, _)
insertByLatency(sorted, x) ==
    IF sorted = <<>> THEN <<x>>
    ELSE IF Head(sorted).latency >= x.latency
         THEN <<Head(sorted)>> \o insertByLatency(Tail(sorted), x)
         ELSE <<x>> \o sorted

RECURSIVE sortInto(_, _)
sortInto(sorted, list) ==
    IF list = <<>> THEN sorted
    ELSE sortInto(insertByLatency(sorted, Head(list)), Tail(list))

sortByLatency_not(list) == list

\* longestInteractionList.sort((a, b) => b.latency - a.latency)
sortByLatency(list) == sortInto(<<>>, list)

\* The first MAX_INTERACTIONS_TO_CONSIDER elements: what splice leaves.
kept(list) ==
    IF Len(list) > MAX_INTERACTIONS_TO_CONSIDER
    THEN SubSeq(list, 1, MAX_INTERACTIONS_TO_CONSIDER)
    ELSE list

\* No id leaves the map.
spliced_none(list) == {}

\* The ids of the elements splice removes.
spliced(list) ==
    {list[k].id : k \in MAX_INTERACTIONS_TO_CONSIDER + 1 .. Len(list)}

\* What has been seen of each interaction once the entry is ingested too.
sawEntry(sn, entry) ==
    IF ~qualifies(entry) THEN sn
    ELSE IF \E p \in sn : p[1] = entry.interactionId
         THEN {IF p[1] = entry.interactionId /\ entry.duration > p[2]
               THEN <<p[1], entry.duration>> ELSE p : p \in sn}
         ELSE sn \cup {<<entry.interactionId, entry.duration>>}

RECURSIVE sawEntries(_, _)
sawEntries(sn, entries) ==
    IF entries = <<>> THEN sn
    ELSE sawEntries(sawEntry(sn, Head(entries)), Tail(entries))

\* processInteractionEntry(entry) on s = [list, map]
processInteractionEntry(s, entry) ==
    IF ~qualifies(entry) \/ ~admits(s.list, s.map, entry) THEN s
    ELSE LET existing == entry.interactionId \in s.map
             list1 == IF existing
                      THEN mergeExisting(s.list, entry)
                      ELSE Append(s.list, [id      |-> entry.interactionId,
                                           latency |-> entry.duration,
                                           entries |-> <<entry>>])
             map1 == s.map \cup {entry.interactionId}
             list2 == sortByLatency(list1)
         IN  [list |-> kept(list2), map |-> map1 \ spliced(list2)]

\* resetInteractions() without the rebase of prevInteractionCount
resetInteractions_norebase ==
    [prev |-> prevInteractionCount, list |-> <<>>, map |-> {}]

\* resetInteractions(): the module's variables afterwards
resetInteractions ==
    [prev |-> interactionCount, list |-> <<>>, map |-> {}]

\* getInteractionCountForNavigation()
getInteractionCountForNavigation == interactionCount - prevInteractionCount

\* The divisor of estimateP98LongestInteraction: one step down the list for
\* every 50 interactions.
P98Share == 50

MaxBursts == 2

Min(a, b) == IF a < b THEN a ELSE b

candidateInteractionIndex_unclamped ==
    getInteractionCountForNavigation \div P98Share

\* Math.min(longestInteractionList.length - 1,
\*          Math.floor(getInteractionCountForNavigation() / 50)), 0-based
candidateInteractionIndex ==
    Min(Len(longestInteractionList) - 1,
        getInteractionCountForNavigation \div P98Share)

\* estimateP98LongestInteraction(): the element at that index, Undefined when
\* the list has none there.
estimateP98LongestInteraction ==
    IF candidateInteractionIndex \in 0 .. Len(longestInteractionList) - 1
    THEN Some(longestInteractionList[candidateInteractionIndex + 1])
    ELSE Undefined

\* What the page's user does:
\*   "fill"  new interactions only, up to MaxInteractions of them
\*   "mix"   MaxEntries entries of every kind
\*   "tail"  MAX_INTERACTIONS_TO_CONSIDER equal interactions, then MaxEntries
\*           entries of every kind
\*   "p98"   MaxEntries new interactions, and up to MaxBursts bursts of
\*           P98Share interactions too short to produce an entry
InteractionTasks == {"fill", "mix", "tail", "p98"}

\* The first entry of a new interaction.
NewSamples(durations) ==
    [interactionId : {interactionCount + 1}, duration : durations,
     startTime : {100}, entryType : {"event"}]

\* Entries of every kind: of a new interaction, of the latest or of the first
\* interaction, without an interaction id, or the first-input entry.
AllSamples ==
    NewSamples(Durations)
    \cup [interactionId : {interactionCount, 1} \ {0}, duration : Durations,
          startTime : StartTimes, entryType : {"event"}]
    \cup [interactionId : {0}, duration : {40},
          startTime : {100}, entryType : {"event", "first-input"}]

\* The entries processInteractionEntry can be called with next.
Samples ==
    CASE task = "fill" ->
           IF interactionCount < MaxInteractions
           THEN NewSamples({40, 80}) ELSE {}
      [] task = "mix" ->
           IF ingested < MaxEntries THEN AllSamples ELSE {}
      [] task = "p98" ->
           IF ingested < MaxEntries THEN NewSamples(Durations) ELSE {}
      [] OTHER ->
           IF interactionCount < MAX_INTERACTIONS_TO_CONSIDER
           THEN NewSamples({80})
           ELSE IF ingested < MAX_INTERACTIONS_TO_CONSIDER + MaxEntries
                THEN AllSamples ELSE {}

----------------------------------------------------------------------------
(* SpecInteractions *)

InteractionsInit ==
    /\ BindIdle
    /\ ClsIdle
    /\ task \in InteractionTasks
    /\ PageUnused
    /\ InteractionsIdle
    /\ ObserveIdle
    /\ Runs("none")

ProcessInteractionEntry ==
    /\ \E entry \in Samples :
        LET s == processInteractionEntry(
                     [list |-> longestInteractionList,
                      map |-> longestInteractionMap], entry)
        IN  /\ longestInteractionList' = s.list
            /\ longestInteractionMap' = s.map
            /\ interactionCount' = Max(interactionCount, entry.interactionId)
            /\ seen' = sawEntry(seen, entry)
    /\ ingested' = ingested + 1
    /\ UNCHANGED prevInteractionCount
    /\ UNCHANGED notInteractions

ResetInteractions ==
    /\ prevInteractionCount' = resetInteractions.prev
    /\ longestInteractionList' = resetInteractions.list
    /\ longestInteractionMap' = resetInteractions.map
    /\ seen' = {}
    /\ UNCHANGED <<interactionCount, ingested>>
    /\ UNCHANGED notInteractions

\* The user interacts P98Share times and no entry reaches the threshold of
\* the observer: only getInteractionCount() grows.
ShortInteractions ==
    /\ task = "p98"
    /\ interactionCount < MaxBursts * P98Share
    /\ interactionCount' = interactionCount + P98Share
    /\ UNCHANGED <<longestInteractionList, longestInteractionMap,
                   prevInteractionCount, ingested, seen>>
    /\ UNCHANGED notInteractions

InteractionsNext ==
    \/ ProcessInteractionEntry
    \/ ResetInteractions
    \/ ShortInteractions

SpecInteractions == InteractionsInit /\ [][InteractionsNext]_vars

----------------------------------------------------------------------------
(* lib/observe.ts *)

\* The browsers observe() may run in: PerformanceObserver is absent, lacks
\* supportedEntryTypes ("untyped") or is present; the type is among the
\* supported ones or not; the constructor or po.observe() throws or not.
Browsers ==
    [api : {"absent", "untyped", "present"}, includes : BOOLEAN,
     ctorThrows : BOOLEAN, observeThrows : BOOLEAN]

\* The statement of the try block that throws, "none" if none does:
\* reading PerformanceObserver.supportedEntryTypes.includes, the constructor,
\* po.observe().
throwsAt(env) ==
    CASE env.api # "present" -> "includes"
      [] ~env.includes -> "none"
      [] env.ctorThrows -> "new"
      [] env.observeThrows -> "observe"
      [] OTHER -> "none"

catches_nothing == FALSE

\* catch { }: every exception of the try block is caught.
catches == TRUE

\* observe(type, callback, opts) in the browser env: what it returns, and
\* whether the browser has the observer registered afterwards.
observe(env) ==
    IF throwsAt(env) # "none"
    THEN [po |-> IF catches THEN "undefined" ELSE "thrown", registered |-> FALSE]
    ELSE IF env.includes
         THEN [po |-> "observer", registered |-> TRUE]
         ELSE [po |-> "undefined", registered |-> FALSE]

\* The entries 1 .. n, oldest first: what buffered: true hands to a new
\* observer.
RECURSIVE Buffered(_)
Buffered(n) == IF n = 0 THEN <<>> ELSE Append(Buffered(n - 1), n)

----------------------------------------------------------------------------
(* SpecObserve *)

ObserveInit ==
    /\ obEnv \in Browsers
    /\ obPo = "uncalled"
    /\ obRegistered = FALSE
    /\ obProduced = 0
    /\ obQueue = <<>>
    /\ obTasks = <<>>
    /\ obBatches = <<>>
    /\ BindIdle
    /\ ClsIdle
    /\ PageIdle
    /\ InteractionsIdle
    /\ Runs("none")

\* observe(type, callback) is called.
ObserveCall ==
    /\ obPo = "uncalled"
    /\ obPo' = observe(obEnv).po
    /\ obRegistered' = observe(obEnv).registered
    /\ obQueue' = IF observe(obEnv).registered THEN Buffered(obProduced) ELSE <<>>
    /\ UNCHANGED <<obEnv, obProduced, obTasks, obBatches>>
    /\ UNCHANGED notObserve

\* The browser produces an entry of the type and holds it for a registered
\* observer.
ObserveEntry ==
    /\ obProduced < MaxSamples
    /\ obProduced' = obProduced + 1
    /\ obQueue' = IF obRegistered THEN Append(obQueue, obProduced + 1) ELSE obQueue
    /\ UNCHANGED <<obEnv, obPo, obRegistered, obTasks, obBatches>>
    /\ UNCHANGED notObserve

\* The browser calls the observer's callback with the entries it holds: the
\* callback only schedules a promise reaction.
ObserveNotify ==
    /\ obRegistered
    /\ obQueue # <<>>
    /\ obTasks' = Append(obTasks, obQueue)
    /\ obQueue' = <<>>
    /\ UNCHANGED <<obEnv, obPo, obRegistered, obProduced, obBatches>>
    /\ UNCHANGED notObserve

\* A promise reaction runs: callback(list.getEntries()).
ObserveReaction ==
    /\ obTasks # <<>>
    /\ obBatches' = Append(obBatches, Head(obTasks))
    /\ obTasks' = Tail(obTasks)
    /\ UNCHANGED <<obEnv, obPo, obRegistered, obProduced, obQueue>>
    /\ UNCHANGED notObserve

ObserveNext ==
    \/ ObserveCall
    \/ ObserveEntry
    \/ ObserveNotify
    \/ ObserveReaction

SpecObserve == ObserveInit /\ [][ObserveNext]_vars

----------------------------------------------------------------------------
(* onINP (src/unnamed/part_005) *)

INPThresholds == <<200, 500>>

\* event entries the browser produces for one page
MaxEvents == 2

\* The event entries the user's next interaction may produce: the first entry
\* of a new interaction, or a longer entry of the latest one.
InpSamples ==
    NewSamples({40, 80})
    \cup [interactionId : {interactionCount} \ {0}, duration : {80},
          startTime : {100}, entryType : {"event"}]

\* entries.forEach(processInteractionEntry) on s = [list, map]
RECURSIVE processEntries(_, _)
processEntries(s, entries) ==
    IF entries = <<>> THEN s
    ELSE processEntries(processInteractionEntry(s, Head(entries)), Tail(entries))

\* estimateP98LongestInteraction() for the list and the count of the epoch
estimateP98(list, count) ==
    IF list = <<>> THEN Undefined
    ELSE Some(list[Min(Len(list) - 1, count \div P98Share) + 1])

\* The state onINP and lib/interactions.ts work on, as one record.
InpState ==
    [alg |-> Alg, list |-> longestInteractionList, map |-> longestInteractionMap,
     ingested |-> ingested, seen |-> seen]

\* The callback handleEntries gives to whenIdle, run with its entries: they
\* are ingested, and the record follows the estimate if that differs from
\* its value.
inpIngest(s, entries) ==
    LET t   == processEntries([list |-> s.list, map |-> s.map], entries)
        est == estimateP98(t.list, getInteractionCountForNavigation)
        cur == Len(s.alg.metrics)
        s1  == [s EXCEPT !.list = t.list, !.map = t.map,
                         !.ingested = @ + Len(entries),
                         !.seen = sawEntries(@, entries)]
    IN  IF est # Undefined /\ est[1].latency # s.alg.metrics[cur].value
        THEN [s1 EXCEPT !.alg =
                 callReporter([s.alg EXCEPT !.metrics[cur].value = est[1].latency,
                                            !.metrics[cur].entries = est[1].entries],
                              cur, INPThresholds, FALSE)]
        ELSE s1

\* The whenIdle callbacks of the batches, run in turn.
RECURSIVE inpIngestAll(_, _)
inpIngestAll(s, batches) ==
    IF batches = <<>> THEN s
    ELSE inpIngestAll(inpIngest(s, Head(batches).entries), Tail(batches))

\* The handler of onINP with its two statements exchanged.
inpOnHidden_reportFirst(s) ==
    LET s1 == [s EXCEPT !.alg = callReporter(s.alg, Len(s.alg.metrics),
                                             INPThresholds, TRUE)]
        s2 == inpIngest(s1, s1.alg.queue)
    IN  [s2 EXCEPT !.alg.queue = <<>>]

\* The handler onINP gives to onHidden, run while the document is hidden:
\* handleEntries(po.takeRecords()), whose whenIdle runs its callback at once,
\* then report(true).
inpOnHidden(s) ==
    LET s1 == inpIngest(s, s.alg.queue) IN
    [s1 EXCEPT !.alg = callReporter([s1.alg EXCEPT !.queue = <<>>],
                                    Len(s1.alg.metrics), INPThresholds, TRUE)]

\* whenIdle without its onHidden(cb): the hidden signal runs no callback.
whenIdleOnHidden_none(pending) == <<>>

\* The pending whenIdle callbacks the hidden signal runs: whenIdle gave each
\* of them to onHidden.
whenIdleOnHidden(pending) == pending

InpAssign(s) ==
    /\ AlgAssign(s.alg)
    /\ longestInteractionList' = s.list
    /\ longestInteractionMap' = s.map
    /\ ingested' = s.ingested
    /\ seen' = s.seen

\* The whenActivated callback of onINP: the reporter is bound whether or not
\* observe() returned an observer.
inpSetup ==
    /\ started' = "yes"
    /\ metrics' = <<initMetric("INP", Undefined, 1)>>
    /\ observer' = IF supported THEN "observing" ELSE "undefined"
    /\ reports' = <<bindReporter>>
    /\ UNCHANGED <<calls, queue>>

inpListening_always == started = "yes"

\* Whether the handlers inside `if (po)` are registered.
inpListening == started = "yes" /\ observer = "observing"

----------------------------------------------------------------------------
(* SpecINP *)

InpInit == PageInit /\ Runs("INP")

\* onINP(onReport, opts) is called in a browser with PerformanceEventTiming
\* and interactionId: whenActivated runs the callback now, or keeps it until
\* the prerendered document is activated.
OnINP ==
    /\ started = "no"
    /\ IF doc.prerendering
       THEN /\ started' = "waiting"
            /\ UNCHANGED algVars
       ELSE inpSetup
    /\ UNCHANGED <<doc, clock, navEntry, constVars, firstHiddenTime, watcher,
                   produced, frames, pageshows, restored, ownVars>>
    /\ UNCHANGED <<bindVars, clsVars, interactionVars, observeVars, engineVars>>

\* prerenderingchange: the document is activated; a waiting callback runs.
InpActivate ==
    /\ doc.prerendering
    /\ doc' = [doc EXCEPT !.prerendering = FALSE, !.visibilityState = "visible"]
    /\ IF started = "waiting"
       THEN inpSetup
       ELSE UNCHANGED <<started, algVars>>
    /\ UNCHANGED <<clock, navEntry, constVars, firstHiddenTime, watcher,
                   produced, frames, pageshows, restored, ownVars>>
    /\ UNCHANGED <<bindVars, clsVars, interactionVars, observeVars, engineVars>>

\* The user interacts: the browser counts the interaction and holds an event
\* entry for the observer (buffered: true keeps those produced before
\* observe()).
InpEvent ==
    /\ supported
    /\ produced < MaxEvents
    /\ doc.visibilityState = "visible"
    /\ ~doc.prerendering
    /\ \E entry \in InpSamples :
        /\ queue' = Append(queue, entry)
        /\ interactionCount' = Max(interactionCount, entry.interactionId)
    /\ produced' = produced + 1
    /\ UNCHANGED <<doc, clock, navEntry, constVars, firstHiddenTime, watcher,
                   started, metrics, reports, calls, observer, frames, pageshows,
                   restored, ownVars>>
    /\ UNCHANGED <<longestInteractionList, longestInteractionMap,
                   prevInteractionCount, ingested, seen>>
    /\ UNCHANGED <<bindVars, clsVars, observeVars, engineVars>>

\* The observer delivers what is queued: handleEntries(list.getEntries())
\* gives the batch to whenIdle, which runs its callback now if the document
\* is hidden and otherwise asks for an idle callback and registers the
\* callback with onHidden.
InpDeliver ==
    /\ observer = "observing"
    /\ queue # <<>>
    /\ IF doc.visibilityState = "hidden"
       THEN /\ InpAssign([inpIngest(InpState, queue) EXCEPT !.alg.queue = <<>>])
            /\ UNCHANGED inp
       ELSE /\ inp' = [inp EXCEPT !.idle = Append(@, [entries |-> queue,
                                                       epoch |-> pageshows])]
            /\ queue' = <<>>
            /\ UNCHANGED <<metrics, reports, calls, observer,
                           longestInteractionList, longestInteractionMap,
                           ingested, seen>>
    /\ UNCHANGED <<doc, clock, navEntry, constVars, firstHiddenTime, watcher,
                   started, produced, frames, pageshows, restored, ownVars>>
    /\ UNCHANGED <<prevInteractionCount, interactionCount>>
    /\ UNCHANGED <<bindVars, clsVars, observeVars, alg, nav, wi>>

\* An idle callback runs the whenIdle callback that has waited longest.
InpIdle ==
    /\ inp.idle # <<>>
    /\ doc.visibilityState = "visible"
    /\ InpAssign(inpIngest(InpState, Head(inp.idle).entries))
    /\ inp' = [inp EXCEPT !.idle = Tail(@)]
    /\ UNCHANGED <<doc, clock, navEntry, constVars, firstHiddenTime, watcher,
                   started, produced, frames, pageshows, restored, ownVars>>
    /\ UNCHANGED <<prevInteractionCount, interactionCount>>
    /\ UNCHANGED <<bindVars, clsVars, observeVars, alg, nav, wi>>

\* The document becomes hidden: the onHidden callbacks in the order of their
\* registration, the handler of onINP first, then the whenIdle callbacks
\* that are still pending.
InpHide ==
    /\ doc.visibilityState = "visible"
    /\ doc' = [doc EXCEPT !.visibilityState = "hidden"]
    /\ IF inpListening
       THEN /\ InpAssign(inpIngestAll(inpOnHidden(InpState),
                                      whenIdleOnHidden(inp.idle)))
            /\ inp' = [idle |-> IF whenIdleOnHidden(inp.idle) = inp.idle
                                THEN <<>> ELSE inp.idle,
                       flushed |-> Len(queue)]
       ELSE UNCHANGED <<algVars, longestInteractionList, longestInteractionMap,
                        ingested, seen, inp>>
    /\ UNCHANGED <<clock, navEntry, constVars, firstHiddenTime, watcher, started,
                   produced, frames, pageshows, restored, ownVars>>
    /\ UNCHANGED <<prevInteractionCount, interactionCount>>
    /\ UNCHANGED <<bindVars, clsVars, observeVars, alg, nav, wi>>

\* pageshow with persisted = true: the restore handler of onINP, if
\* registered: resetInteractions(), a fresh record and reporter.
InpRestore ==
    /\ doc.visibilityState = "hidden"
    /\ ~doc.prerendering
    /\ pageshows < Pageshows
    /\ pageshows' = pageshows + 1
    /\ doc' = [doc EXCEPT !.visibilityState = "visible"]
    /\ IF inpListening
       THEN /\ prevInteractionCount' = resetInteractions.prev
            /\ longestInteractionList' = resetInteractions.list
            /\ longestInteractionMap' = resetInteractions.map
            /\ seen' = {}
            /\ metrics' = Append(metrics,
                                 initMetric("INP", Undefined, Len(metrics) + 1))
            /\ reports' = Append(reports, bindReporter)
       ELSE UNCHANGED <<prevInteractionCount, longestInteractionList,
                        longestInteractionMap, seen, metrics, reports>>
    /\ UNCHANGED <<clock, navEntry, constVars, firstHiddenTime, watcher, started,
                   calls, observer, queue, produced, frames, restored, ownVars>>
    /\ UNCHANGED <<interactionCount, ingested>>
    /\ UNCHANGED <<bindVars, clsVars, observeVars, engineVars>>

InpNext ==
    \/ OnINP
    \/ InpActivate
    \/ InpEvent
    \/ InpDeliver
    \/ InpIdle
    \/ InpHide
    \/ InpRestore
    \/ PageShow

SpecINP == InpInit /\ [][InpNext]_vars

----------------------------------------------------------------------------
(* initMetric's navigationType (src/unnamed/part_001) and lib/bfcache *)
(* (lib/bindReporter.ts:57-79): SpecNav                               *)

\* records created on one page
MaxRecords == 3

\* Strings that String.replace works on are tuples of pieces; '_' and '-'
\* are pieces of their own.
NavigationTypes ==
    {<<"navigate">>, <<"reload">>, <<"back", "_", "forward">>, <<"prerender">>}

\* type.replace(/_/g, '-')
RECURSIVE replaceUnderscores(_)
replaceUnderscores(type) ==
    IF type = <<>> THEN <<>>
    ELSE <<IF Head(type) = "_" THEN "-" ELSE Head(type)>>
         \o replaceUnderscores(Tail(type))

\* The navigationType initMetric computes when getBFCacheRestoreTime()
\* returns restoreTime.
navigationType(restoreTime) ==
    IF restoreTime > 0 THEN <<"back", "-", "forward", "-", "cache">>
    ELSE IF getNavigationEntry # Undefined
         THEN IF doc.prerendering \/ getActivationStart > 0
              THEN <<"prerender">>
              ELSE IF doc.wasDiscarded THEN <<"restore">>
              ELSE IF navEntry.type # <<>>
                   THEN replaceUnderscores(navEntry.type)
                   ELSE <<"navigate">>
         ELSE <<"navigate">>

\* The record initMetric returns, by its navigationType, with the page it
\* was created on: the cache restorations so far and the latest the
\* listeners saw, the document, the browser's navigation entry and whether
\* getNavigationEntry() returns it.
created(restoreTime, restorations) ==
    [navigationType |-> navigationType(restoreTime),
     page |-> [restorations |-> restorations,
               restoreTime  |-> restoreTime,
               prerendering |-> doc.prerendering,
               wasDiscarded |-> doc.wasDiscarded,
               navEntry     |-> navEntry,
               available    |-> getNavigationEntry # Undefined]]

\* No algorithm is called on the page.
NoAlgorithm ==
    /\ opts = [reportAllChanges |-> FALSE]
    /\ supported = FALSE
    /\ firstHiddenTime = -1
    /\ watcher = [listening |-> FALSE, timers |-> 0]
    /\ started = "no"
    /\ metrics = <<>>
    /\ reports = <<>>
    /\ calls = <<>>
    /\ observer = "unset"
    /\ queue = <<>>
    /\ produced = 0
    /\ frames = <<<<>>, <<>>>>
    /\ pageshows = 0
    /\ restored = <<>>
    /\ lcp = NoLcp
    /\ fid = NoFid
    /\ ttfb = NoTtfb

NavInit ==
    /\ BindIdle
    /\ ClsIdle
    /\ InteractionsIdle
    /\ ObserveIdle
    /\ task = "none"
    /\ doc \in [visibilityState : {"visible"}, prerendering : BOOLEAN,
                 readyState : {"complete"}, wasDiscarded : BOOLEAN]
    /\ clock = 100
    /\ navEntry \in [type : NavigationTypes, responseStart : {0, 50},
                      activationStart : {0}]
    /\ NoAlgorithm
    /\ alg = "none"
    /\ inp = NoInp
    /\ nav = NoNav
    /\ wi = <<>>

navRest == <<task, clock, opts, supported, firstHiddenTime, watcher, started,
             metrics, reports, calls, observer, queue, produced, frames,
             pageshows, restored, lcp, fid, ttfb, alg, inp, wi>>

\* An algorithm is called: it creates its record and, if it gets as far,
\* calls onBFCacheRestore, which adds a pageshow listener.
NavCall ==
    /\ Len(nav.records) < MaxRecords
    /\ \E registers \in BOOLEAN :
         nav' = [nav EXCEPT !.records = Append(@, created(nav.bfcacheRestoreTime,
                                                            nav.pageshows)),
                            !.listening = @ \/ registers]
    /\ UNCHANGED <<doc, navEntry, navRest>>
    /\ UNCHANGED <<bindVars, clsVars, interactionVars, observeVars>>

\* prerenderingchange: the document is activated.
NavActivate ==
    /\ doc.prerendering
    /\ doc' = [doc EXCEPT !.prerendering = FALSE]
    /\ navEntry' = [navEntry EXCEPT !.activationStart = clock]
    /\ UNCHANGED <<nav, navRest>>
    /\ UNCHANGED <<bindVars, clsVars, interactionVars, observeVars>>

\* pageshow with persisted = true: a listener of onBFCacheRestore, if one is
\* added, sets bfcacheRestoreTime to the event's timeStamp and calls its
\* callback, which creates a record.
NavPageShow ==
    /\ ~doc.prerendering
    /\ nav.pageshows < MaxPageshows
    /\ nav.listening => Len(nav.records) < MaxRecords
    /\ nav' = IF nav.listening
              THEN [nav EXCEPT !.pageshows = @ + 1,
                               !.bfcacheRestoreTime = clock,
                               !.records = Append(@, created(clock, nav.pageshows + 1))]
              ELSE [nav EXCEPT !.pageshows = @ + 1]
    /\ UNCHANGED <<doc, navEntry, navRest>>
    /\ UNCHANGED <<bindVars, clsVars, interactionVars, observeVars>>

NavNext ==
    \/ NavCall
    \/ NavActivate
    \/ NavPageShow

SpecNav == NavInit /\ [][NavNext]_vars

----------------------------------------------------------------------------
(* whenIdle (src/unnamed/part_003): SpecWhenIdle *)

\* calls of whenIdle
MaxCallbacks == 3

\* hidden transitions of the document
MaxHides == 2

\* A call of the wrapper runOnce(cb) of the callback c on the signal s
\* ("call": by whenIdle itself): cb runs if the wrapper was not called
\* before.
wrapperCalled(c, s) ==
    [c EXCEPT !.flag = TRUE,
              !.runs = IF runOnce(c.flag) THEN @ + 1 ELSE @,
              !.ranBy = IF runOnce(c.flag) THEN s ELSE @,
              !.first = IF @ = "none" THEN s ELSE @]

\* whenIdle(cb) on a document that is hidden or not: the callback with its
\* wrapper's flag, the runs of cb, the handle of rIC(cb) ("none", "pending",
\* "fired"), whether onHidden has the wrapper, and the signal that called the
\* wrapper first and the one that ran cb.
whenIdle(hidden) ==
    LET cb == [flag |-> FALSE, runs |-> 0, idle |-> "none", onHidden |-> FALSE,
               first |-> "none", ranBy |-> "none",
               hiddenAtCall |-> hidden]
    IN  IF hidden
        THEN wrapperCalled(cb, "call")
        ELSE [cb EXCEPT !.idle = "pending", !.onHidden = TRUE]

\* The callbacks after every wrapper onHidden has is called.
RECURSIVE hiddenSignal(_)
hiddenSignal(cbs) ==
    IF cbs = <<>> THEN <<>>
    ELSE <<IF Head(cbs).onHidden THEN wrapperCalled(Head(cbs), "hidden")
           ELSE Head(cbs)>>
         \o hiddenSignal(Tail(cbs))

WiInit ==
    /\ BindIdle
    /\ ClsIdle
    /\ InteractionsIdle
    /\ ObserveIdle
    /\ task = "none"
    /\ doc \in [visibilityState : {"visible", "hidden"}, prerendering : {FALSE},
                 readyState : {"complete"}, hides : {0}]
    /\ clock = 0
    /\ navEntry = [activationStart |-> 0, responseStart |-> 0]
    /\ NoAlgorithm
    /\ alg = "none"
    /\ inp = NoInp
    /\ nav = NoNav
    /\ wi = <<>>

wiRest == <<task, clock, navEntry, opts, supported, firstHiddenTime, watcher,
            started, metrics, reports, calls, observer, queue, produced, frames,
            pageshows, restored, lcp, fid, ttfb, alg, inp, nav>>

\* whenIdle(cb) is called.
WhenIdle ==
    /\ Len(wi) < MaxCallbacks
    /\ wi' = Append(wi, whenIdle(doc.visibilityState = "hidden"))
    /\ UNCHANGED <<doc, wiRest>>
    /\ UNCHANGED <<bindVars, clsVars, interactionVars, observeVars>>

\* The host runs a pending idle callback (or the timer of the fallback
\* fires): the wrapper is called.
WiIdle ==
    /\ \E i \in 1..Len(wi) :
        /\ wi[i].idle = "pending"
        /\ wi' = [wi EXCEPT ![i] = [wrapperCalled(wi[i], "idle")
                                      EXCEPT !.idle = "fired"]]
    /\ UNCHANGED <<doc, wiRest>>
    /\ UNCHANGED <<bindVars, clsVars, interactionVars, observeVars>>

\* The document becomes hidden: onHidden calls the wrappers it has.
WiHide ==
    /\ doc.visibilityState = "visible"
    /\ doc.hides < MaxHides
    /\ doc' = [doc EXCEPT !.visibilityState = "hidden", !.hides = @ + 1]
    /\ wi' = hiddenSignal(wi)
    /\ UNCHANGED wiRest
    /\ UNCHANGED <<bindVars, clsVars, interactionVars, observeVars>>

\* The document becomes visible again.
WiShow ==
    /\ doc.visibilityState = "hidden"
    /\ doc' = [doc EXCEPT !.visibilityState = "visible"]
    /\ UNCHANGED <<wi, wiRest>>
    /\ UNCHANGED <<bindVars, clsVars, interactionVars, observeVars>>

WiNext ==
    \/ WhenIdle
    \/ WiIdle
    \/ WiHide
    \/ WiShow

\* The host gets idle (or the fallback's timer fires) eventually.
SpecWhenIdle == WiInit /\ [][WiNext]_vars /\ WF_vars(WiIdle)

----------------------------------------------------------------------------
(* SpecEngine, SpecHidden: the page runs one of several algorithms *)

\* The algorithms whose reporter is bound only if observe() returned an
\* observer, and onINP, which registers its handlers only then.
EngineInit ==
    \/ ClsInit /\ workload = "scenario"
    \/ LcpInit
    \/ FcpInit
    \/ InpInit

EngineNext ==
    \/ alg = "CLS" /\ ClsNext
    \/ alg = "LCP" /\ LcpNext
    \/ alg = "FCP" /\ FcpNext
    \/ alg = "INP" /\ InpNext

SpecEngine == EngineInit /\ [][EngineNext]_vars

\* The algorithms that give a handler to onHidden.
HiddenInit ==
    \/ ClsInit /\ workload = "scenario"
    \/ LcpInit
    \/ FidInit
    \/ InpInit

HiddenNext ==
    \/ alg = "CLS" /\ ClsNext
    \/ alg = "LCP" /\ LcpNext
    \/ alg = "FID" /\ FidNext
    \/ alg = "INP" /\ InpNext

SpecHidden == HiddenInit /\ [][HiddenNext]_vars

----------------------------------------------------------------------------
(* Claims about bindReporter, checked under SpecBind *)

\* The consumer invocations made for the record with this id among the first
\* n, oldest first.
BCallsOf(id, n) == SelectSeq(SubSeq(bCalls, 1, n), LAMBDA c : c.id = id)

\* The latest operation was a reporter call, and it invoked the consumer.
BEmitted == bLast.op = "report" /\ Len(bCalls) > bLast.calls

\* C1: a reporter bound with reportAllChanges unset never invokes the consumer
\* when it is called without force, whatever the record's value is and however
\* often it changed.
C1_NoForceNoEmission ==
    (bLast.op = "report" /\ ~bLast.force /\ ~bReportAllChanges)
        => Len(bCalls) = bLast.calls

\* A call without force, of a reporter without reportAllChanges, on a positive
\* value that was never reported, after the value has changed.
C1_Witness ==
    /\ bLast.op = "report" /\ ~bLast.force /\ ~bReportAllChanges
    /\ bLast.metric.value > 1
    /\ bCalls = <<>>
    /\ bOps >= 3

\* C2: a call invokes the consumer only if (force or reportAllChanges) and
\* (the value differs from the value at this reporter's previous emission, or
\* it has not emitted before); a forced call with the value of the previous
\* emission does not invoke it.
C2_EmitsOnlyOnChange ==
    LET before == BCallsOf(bLast.metric.id, bLast.calls) IN
    /\ BEmitted =>
          /\ bLast.force \/ bReportAllChanges
          /\ before = <<>> \/ before[Len(before)].value # bLast.metric.value
    /\ (bLast.op = "report" /\ bLast.force /\ before # <<>>
           /\ before[Len(before)].value = bLast.metric.value)
          => Len(bCalls) = bLast.calls

\* A forced call with the value this reporter emitted before.
C2_Witness ==
    LET before == BCallsOf(bLast.metric.id, bLast.calls) IN
    /\ bLast.op = "report" /\ bLast.force
    /\ before # <<>>
    /\ before[Len(before)].value = bLast.metric.value
    /\ Len(bCalls) = bLast.calls

RatingOf(value, thresholds) ==
    CHOOSE r \in {"good", "needs-improvement", "poor"} :
        /\ r = "good" <=> value <= thresholds[1]
        /\ r = "needs-improvement" <=> (thresholds[1] < value /\ value <= thresholds[2])
        /\ r = "poor" <=> value > thresholds[2]

\* C4: the rating the consumer sees on every emission is good when
\* value <= thresholds[0], needs-improvement when thresholds[0] < value <=
\* thresholds[1], poor when value > thresholds[1].
C4_RatingByThresholds ==
    \A i \in 1 .. Len(bCalls) :
        bCalls[i].rating = RatingOf(bCalls[i].value, bThresholds)

\* Emissions exactly at thresholds[0] and exactly at thresholds[1].
C4_Witness ==
    /\ \E i \in 1 .. Len(bCalls) :
          bCalls[i].value = bThresholds[1] /\ bCalls[i].rating = "good"
    /\ \E i \in 1 .. Len(bCalls) :
          bCalls[i].value = bThresholds[2] /\ bCalls[i].rating = "needs-improvement"

\* C5: the delta of a reporter's first emission is the value; the delta of
\* each later emission is the value minus the value of the same reporter's
\* previous emission; a reporter made by rebinding starts over.
C5_DeltaPerReporter ==
    \A i \in 1 .. Len(bCalls) :
        LET before == BCallsOf(bCalls[i].id, i - 1) IN
        bCalls[i].delta =
            bCalls[i].value - (IF before = <<>> THEN 0 ELSE before[Len(before)].value)

\* Two emissions of one reporter, then the first emission of a reporter made
\* by rebinding.
C5_Witness ==
    /\ Len(bCalls) = 3
    /\ bCalls[1].id = bCalls[2].id /\ bCalls[2].delta # bCalls[2].value
    /\ bCalls[3].id # bCalls[2].id /\ bCalls[3].delta = bCalls[3].value

\* The sum of the delta fields of the emissions for the record id.
RECURSIVE sumOfDeltas(_, _)
sumOfDeltas(emissions, id) ==
    IF emissions = <<>> THEN 0
    ELSE (IF Head(emissions).id = id THEN Head(emissions).delta ELSE 0)
         + sumOfDeltas(Tail(emissions), id)

\* The most recent of the emissions for the record id, which has one.
RECURSIVE latestFor(_, _)
latestFor(emissions, id) ==
    IF emissions[Len(emissions)].id = id THEN emissions[Len(emissions)]
    ELSE latestFor(SubSeq(emissions, 1, Len(emissions) - 1), id)

deltasSumToValue(emissions) ==
    \A k \in 1..Len(emissions) :
        sumOfDeltas(emissions, emissions[k].id)
          = latestFor(emissions, emissions[k].id).value

\* C37: for every record id the deltas passed to the consumer add up to the
\* value passed in the most recent emission for that id.
C37_DeltasSum ==
    /\ deltasSumToValue(bCalls)
    /\ deltasSumToValue(calls)
    /\ deltasSumToValue(clsCalls)

\* A record was emitted three times, its value going up and down, between
\* emissions of other records.
C37_Witness ==
    \E i, j, k \in 1..Len(bCalls) :
        /\ i < j /\ j < k
        /\ bCalls[i].id = bCalls[k].id /\ bCalls[j].id = bCalls[k].id
        /\ bCalls[j].delta < 0
        /\ bCalls[k].delta > 0

----------------------------------------------------------------------------
(* Claims about onCLS, checked under SpecCLS *)

\* The record `metric` refers to.
Metric == clsMetrics[Len(clsMetrics)]

\* observe('layout-shift', ...) returned an observer.
Observing == po = "observer"

RECURSIVE SumOf(_)
SumOf(es) == IF es = <<>> THEN 0 ELSE Head(es).value + SumOf(Tail(es))

\* The samples es form one session: consecutive gaps >= 0 and < 1000 ms, all
\* less than 5000 ms after the first.
OneSession(es) ==
    \A i \in 2 .. Len(es) :
        /\ es[i].startTime - es[i - 1].startTime >= 0
        /\ es[i].startTime - es[i - 1].startTime < 1000
        /\ es[i].startTime - es[1].startTime < 5000

\* The sessions the samples es form, appended to the sessions acc, when a
\* sample joins the open session exactly if its gap to the session's last
\* sample is below 1000 ms (or equal to it, if gapIncluded) and it starts less
\* than 5000 ms after the session's first sample.
RECURSIVE SessionsOf(_, _, _)
SessionsOf(es, gapIncluded, acc) ==
    IF es = <<>> THEN acc
    ELSE LET e == Head(es)
             open == IF acc = <<>> THEN <<>> ELSE acc[Len(acc)]
             gap == e.startTime - open[Len(open)].startTime
             joins == /\ open # <<>>
                      /\ IF gapIncluded THEN gap <= 1000 ELSE gap < 1000
                      /\ e.startTime - open[1].startTime < 5000
         IN  SessionsOf(Tail(es), gapIncluded,
                        IF joins THEN [acc EXCEPT ![Len(acc)] = Append(@, e)]
                        ELSE Append(acc, <<e>>))

\* The largest cumulative value among the sessions ss, 0 if there is none.
MaxSessionValue(ss) ==
    IF ss = <<>> THEN 0
    ELSE CHOOSE v \in {SumOf(ss[i]) : i \in 1 .. Len(ss)} :
            \A i \in 1 .. Len(ss) : SumOf(ss[i]) <= v

\* C6: when the non-input samples handled in the epoch have gaps >= 0 and
\* < 1000 ms and span < 5000 ms, the record's value is the sum of their
\* magnitudes (0.05, 0.03, 0.02 at 0, 500, 900: value 0.10, rated good); a
\* sample arriving after a gap > 1000 ms starts a session whose value is its
\* own magnitude.
C6_OneSessionSum ==
    Observing =>
        /\ (handled # <<>> /\ OneSession(handled)) => Metric.value = SumOf(handled)
        /\ (Len(handled) >= 2 /\ handled[Len(handled)].startTime
                                   - handled[Len(handled) - 1].startTime > 1000)
              => /\ sessionValue = handled[Len(handled)].value
                 /\ sessionEntries = <<handled[Len(handled)]>>
        /\ handled = Scenario =>
              /\ Metric.value = 100
              /\ \A i \in 1 .. Len(clsCalls) :
                    (clsCalls[i].id = Metric.id /\ clsCalls[i].value = 100)
                        => clsCalls[i].rating = "good"

\* The three samples of the scenario are handled and the consumer has received
\* the value 0.10.
C6_Witness ==
    /\ Observing
    /\ handled = Scenario
    /\ clsCalls # <<>>
    /\ clsCalls[Len(clsCalls)].value = 100
    /\ clsCalls[Len(clsCalls)].rating = "good"

\* C7: after every handled batch the record's value is the largest cumulative
\* value among all sessions formed so far in the epoch, however the samples
\* were grouped into batches.
C7_ValueIsMaxSession ==
    Observing => Metric.value = MaxSessionValue(SessionsOf(handled, FALSE, <<>>))

C9_ValueMonotonic ==
    [][(Observing /\ nRestores' = nRestores) =>
          /\ Metric'.value >= Metric.value
          /\ Metric'.value # Metric.value =>
                /\ sessionValue' > Metric.value
                /\ Metric'.value = sessionValue']_vars

\* The open session is smaller than an earlier one: the record keeps the
\* larger value, also after the document was hidden.
C9_Witness ==
    /\ Observing
    /\ visibilityState = "hidden"
    /\ sessionValue > 0
    /\ sessionValue < Metric.value
    /\ Len(handled) >= 2

\* C10: once the observation has started and the zero-delay timer has fired,
\* the consumer has been invoked with a CLS record, also when no layout shift
\* occurred.
C10_BaselineEmitted ==
    timer0 = "fired" => \E i \in 1 .. Len(clsCalls) : clsCalls[i].name = "CLS"

\* C11: once a cache restoration's two animation frames have passed, the
\* consumer has received the fresh record created by that restoration, whether
\* or not a layout shift occurred since.
C11_RestoreEmitsFresh ==
    (Observing /\ Len(clsMetrics) > 1 /\ rafs = <<0, 0>>) =>
        \E i \in 1 .. Len(clsCalls) : clsCalls[i].id = Metric.id

\* C12: when the document becomes hidden the queued samples are folded into
\* the record and the value the consumer last received is the record's value.
C12_HiddenFlushesThenEmits ==
    [][(Observing /\ visibilityState = "visible" /\ visibilityState' = "hidden") =>
          /\ poQueue' = <<>>
          /\ clsCalls' # <<>>
          /\ clsCalls'[Len(clsCalls')].id = Metric'.id
          /\ clsCalls'[Len(clsCalls')].value = Metric'.value]_vars

\* C27: a layout-shift sample with hadRecentInput set changes nothing in the
\* CLS algorithm: handling the queued samples leaves the session value, the
\* session's sample list, every record and the consumer's calls exactly as
\* handling the queue without its flagged samples does, so a flagged sample
\* neither extends the session nor closes it.
C27_RecentInputIgnored ==
    Observing =>
        /\ handleEntries(ClsState, poQueue) = handleEntries(ClsState, NonInput(poQueue))
        /\ \A i \in 1 .. Len(poQueue) :
               poQueue[i].hadRecentInput =>
                   handleEntries(ClsState, <<poQueue[i]>>) = ClsState

\* A flagged sample is delivered right after a session's sample, within the
\* gap that would make it part of the session, and nothing changed.
C27_Witness ==
    /\ Observing
    /\ sessionValue > 0
    /\ \E i \in 1 .. Len(poQueue) :
          /\ poQueue[i].hadRecentInput
          /\ poQueue[i].value > 0
          /\ inSession(sessionValue, sessionEntries, poQueue[i])
    /\ NonInput(poQueue) # poQueue
    /\ handleEntries(ClsState, poQueue) = handleEntries(ClsState, NonInput(poQueue))

\* C28: for one call of onCLS the body that creates the layout-shift observer
\* and registers its hidden and restore handlers runs at most once, however
\* often FCP emits (the emissions after cache restorations included): it has
\* run exactly when the observer was requested.
C28_SetupOnce ==
    /\ called.runs <= 1
    /\ called.runs = IF po = "unset" THEN 0 ELSE 1
    /\ called.flag = (called.calls > 0)

\* FCP has emitted a second time, after a cache restoration, and the observer
\* was set up once.
C28_Witness ==
    /\ called.calls >= 2
    /\ called.runs = 1
    /\ nRestores >= 1
    /\ Observing

\* C29: before FCP emits for the first time onCLS handles no layout-shift
\* sample and does not invoke its consumer: there is no observer, no record,
\* no timer and no frame callback; so in an epoch in which FCP emits nothing
\* (its sample was rejected because the page had been hidden before), CLS
\* reports nothing.
C29_WaitsForFCP ==
    called.calls = 0 =>
        /\ ~Observing
        /\ po = "unset"
        /\ handled = <<>>
        /\ clsCalls = <<>>
        /\ clsMetrics = <<>>
        /\ sessionValue = 0 /\ sessionEntries = <<>>
        /\ timer0 = "none"
        /\ rafs = <<0, 0>>

\* The page shifted, was hidden and restored, FCP has not emitted, and CLS
\* has handled and reported nothing.
C29_Witness ==
    /\ called.calls = 0
    /\ layoutShiftSupported
    /\ Len(poQueue) >= 2
    /\ nRestores >= 1
    /\ visibilityState = "hidden"
    /\ clsCalls = <<>>
    /\ handled = <<>>

\* C39: whenever the record's value is not 0, the record's entries are the
\* samples of one of the sessions formed in the epoch and their magnitudes
\* add up to the record's value.
C39_EntriesAreTheSession ==
    (Observing /\ Metric.value # 0) =>
        LET ss == SessionsOf(handled, FALSE, <<>>) IN
        /\ \E i \in 1 .. Len(ss) : Metric.entries = ss[i]
        /\ SumOf(Metric.entries) = Metric.value

----------------------------------------------------------------------------
(* Claims about onLCP, checked under SpecLCP *)

LcpMetric == metrics[Len(metrics)]

\* The entries of a batch that handleEntries looks at.
Considered(entries) ==
    IF opts.reportAllChanges THEN entries ELSE <<entries[Len(entries)]>>

\* C13: whenever a batch of LCP samples is handled, a sample is accepted exactly
\* when its startTime is below firstHiddenTime at that moment; the last accepted
\* sample e leaves the record with value max(e.startTime - activationStart, 0)
\* and entries [e]; if none is accepted the record's value and entries are
\* unchanged.  A sample at 1500 with firstHiddenTime = Infinity and
\* activationStart = 0 gives value 1500, and an emitted 1500 is rated good.
C13_LcpAcceptance ==
    [][(observer = "observing" /\ queue # <<>> /\ queue' = <<>>) =>
          LET acc == SelectSeq(Considered(queue),
                               LAMBDA e : e.startTime < firstHiddenTime)
              m   == metrics[Len(metrics)]
              m1  == metrics'[Len(metrics)]
          IN  /\ IF acc = <<>>
                 THEN m1.value = m.value /\ m1.entries = m.entries
                 ELSE LET e == acc[Len(acc)] IN
                      /\ m1.value = Max(e.startTime - getActivationStart, 0)
                      /\ m1.entries = <<e>>
                      /\ (/\ e.startTime = 1500
                          /\ firstHiddenTime = Infinity
                          /\ getActivationStart = 0) => m1.value = 1500
              /\ \A i \in 1 .. Len(calls') :
                    calls'[i].value = 1500 => calls'[i].rating = "good"]_vars

\* The sample at 1500 was accepted on a page that was never hidden, and the
\* consumer received 1500 rated good.
C13_Witness ==
    /\ started = "yes"
    /\ firstHiddenTime = Infinity
    /\ navEntry.activationStart = 0
    /\ LcpMetric.value = 1500
    /\ LcpMetric.entries = <<[startTime |-> 1500]>>
    /\ \E i \in 1 .. Len(calls) :
          calls[i].value = 1500 /\ calls[i].rating = "good"

\* C14: whatever the order of clicks, keydowns, idle callbacks and hidden
\* events, the body of stopListening runs at most once, and the consumer gets at
\* most one forced final emission per record id from it.
C14_StopOnce ==
    /\ Len(lcp.stops) <= 1
    /\ \A i, j \in 1 .. Len(lcp.finals) :
          i # j => lcp.finals[i] # lcp.finals[j]

\* stopListening was called more than once, a whenIdle callback is still
\* pending, and its body ran once and emitted the final record.
C14_Witness ==
    /\ lcp.tries = 2
    /\ lcp.idle > 0
    /\ lcp.stops = <<1>>
    /\ lcp.finals = <<1>>

\* The body of stopListening has run for the current record: no cache
\* restoration has created a record since.
LcpStopped == lcp.stops # <<>> /\ lcp.stops[Len(lcp.stops)] = LcpMetric.id

\* C30: once the body of stopListening has run (after the first interaction
\* or when the document was hidden), the current LCP record keeps its value
\* and entries and the consumer is not invoked again, until a cache
\* restoration starts a new epoch.
C30_FinalAfterStop ==
    [][(LcpStopped /\ pageshows' = pageshows) =>
          /\ Len(metrics') = Len(metrics)
          /\ metrics'[Len(metrics)].value = LcpMetric.value
          /\ metrics'[Len(metrics)].entries = LcpMetric.entries
          /\ calls' = calls]_vars

----------------------------------------------------------------------------
(* Claims about onFCP, checked under SpecFCP *)

\* The consumer invocations that carry the record id.
CallsOf(id) == {i \in 1 .. Len(calls) : calls[i].id = id}

\* C15: for every cache restoration (timeStamp T) whose doubleRAF callback has
\* run (at time now), the consumer has received the record created by that
\* restoration exactly once, with value now - T and delta equal to the value.
C15_RestoreEmitsElapsed ==
    \A k \in 1 .. Len(restored) :
        restored[k].now >= 0 =>
            /\ Cardinality(CallsOf(restored[k].id)) = 1
            /\ \A i \in CallsOf(restored[k].id) :
                  /\ calls[i].value = restored[k].now - restored[k].timeStamp
                  /\ calls[i].delta = calls[i].value

\* C16: in the initial epoch the consumer gets the FCP record at most once,
\* and only in a step that handles the entry named first-contentful-paint with
\* startTime below firstHiddenTime: the emission carries
\* max(startTime - activationStart, 0) as value and as delta, whatever
\* reportAllChanges is.  A step that handles that entry leaves the observer
\* disconnected, accepted or not.
C16_FcpOnce ==
    [][/\ Cardinality(CallsOf(1))' <= 1
       /\ (Len(calls') > Len(calls) /\ calls'[Len(calls')].id = 1) =>
             \E i \in 1 .. Len(queue) :
                /\ observer = "observing"
                /\ queue[i].name = "first-contentful-paint"
                /\ queue[i].startTime < firstHiddenTime
                /\ calls'[Len(calls')].value =
                       Max(queue[i].startTime - getActivationStart, 0)
                /\ calls'[Len(calls')].delta = calls'[Len(calls')].value
       /\ (/\ observer = "observing"
           /\ queue # <<>>
           /\ queue' = <<>>
           /\ \E i \in 1 .. Len(queue) :
                 queue[i].name = "first-contentful-paint") =>
             observer' = "disconnected"]_vars

\* Without reportAllChanges the first record was emitted once, for the
\* first-contentful-paint entry that followed a first-paint entry, and the
\* observer is disconnected.
C16_Witness ==
    /\ ~opts.reportAllChanges
    /\ task = "load"
    /\ produced = 2
    /\ observer = "disconnected"
    /\ Cardinality(CallsOf(1)) = 1
    /\ metrics[1].entries # <<>>
    /\ metrics[1].entries[1].name = "first-contentful-paint"

----------------------------------------------------------------------------
(* Claims about onFID, checked under SpecFID *)

\* C17: every FID record takes its value from the first sample it accepted
\* and is passed to the consumer at most once, also when the first-input
\* observer and the firstInputPolyfill both hand a sample to handleEntry.
C17_FidSingleShot ==
    \A k \in 1 .. Len(metrics) :
        /\ Cardinality(CallsOf(k)) <= 1
        /\ metrics[k].entries # <<>> =>
              metrics[k].value = metrics[k].entries[1].processingStart
                                 - metrics[k].entries[1].startTime

\* C22: after a cache restoration no record that existed at that restoration
\* is updated or passed to the consumer again.
C22_NoStaleRecord ==
    [][ \A k \in 1 .. fid.old :
            /\ metrics'[k] = metrics[k]
            /\ \A i \in Len(calls) + 1 .. Len(calls') : calls'[i].id # k
      ]_vars

----------------------------------------------------------------------------
(* Claims about onTTFB, checked under SpecTTFB *)

\* C18: in the initial epoch, once the callback of onTTFB has run with a
\* navigation entry, the record's value is
\* max(responseStart - activationStart, 0) and the consumer has been invoked
\* exactly once for it, whatever the number of load events.
C18_TtfbOnce ==
    (pageshows = 0 /\ ttfb.computed # <<>>) =>
        /\ metrics[1].value
             = Max(navEntry.responseStart - navEntry.activationStart, 0)
        /\ Cardinality(CallsOf(1)) = 1

\* C19: every record a cache restoration created has value 0 and has been
\* passed to the consumer with that value.
C19_RestoreEmitsZero ==
    \A k \in 2 .. Len(metrics) :
        /\ metrics[k].value = 0
        /\ \E i \in CallsOf(k) : calls[i].value = 0

----------------------------------------------------------------------------
(* Claims about lib/interactions.ts, checked under SpecInteractions *)

\* C20: after any sequence of processInteractionEntry and resetInteractions
\* calls the retained list has at most 10 elements and its latencies do not
\* increase from one element to the next.
C20_RetainedSorted ==
    /\ Len(longestInteractionList) <= MAX_INTERACTIONS_TO_CONSIDER
    /\ \A k \in 1 .. Len(longestInteractionList) - 1 :
          longestInteractionList[k].latency
            >= longestInteractionList[k + 1].latency

\* More interactions than the list retains were taken in this epoch, and the
\* retained ones differ in latency.
C20_Witness ==
    /\ Len(longestInteractionList) = MAX_INTERACTIONS_TO_CONSIDER
    /\ getInteractionCountForNavigation > MAX_INTERACTIONS_TO_CONSIDER
    /\ longestInteractionList[1].latency
         > longestInteractionList[MAX_INTERACTIONS_TO_CONSIDER].latency


\* C21: with at least one interaction retained, estimateP98LongestInteraction
\* takes the index min(retained - 1, floor(count of the epoch / 50)), which
\* lies in 0 .. retained - 1, and returns the interaction at that index; with
\* none retained it returns nothing.
C21_P98InRange ==
    LET n == Len(longestInteractionList)
        steps == getInteractionCountForNavigation \div 50
        index == IF n - 1 < steps THEN n - 1 ELSE steps
    IN  IF n > 0
        THEN /\ candidateInteractionIndex = index
             /\ index \in 0 .. n - 1
             /\ estimateP98LongestInteraction
                  = Some(longestInteractionList[index + 1])
        ELSE estimateP98LongestInteraction = Undefined

\* Two interactions are retained and the count of the epoch would index
\* behind them.
C21_Witness ==
    /\ Len(longestInteractionList) = 2
    /\ prevInteractionCount > 0
    /\ getInteractionCountForNavigation >= 2 * P98Share
    /\ estimateP98LongestInteraction = Some(longestInteractionList[2])


\* C31: resetInteractions empties the retained list and the map and rebases
\* the counter, so that the epoch's interaction count is 0 right afterwards;
\* while the list is empty estimateP98LongestInteraction returns nothing, and
\* the list stays empty until processInteractionEntry ingests a qualifying
\* sample.
C31_ResetEmpties ==
    [][/\ (ingested' = ingested /\ interactionCount' = interactionCount) =>
             /\ longestInteractionList' = <<>>
             /\ longestInteractionMap' = {}
             /\ interactionCount' - prevInteractionCount' = 0
             /\ estimateP98LongestInteraction' = Undefined
       /\ (longestInteractionList = <<>> /\ longestInteractionList' # <<>>) =>
             /\ ingested' = ingested + 1
             /\ qualifies(longestInteractionList'[1].entries[1])
       /\ longestInteractionList = <<>> => estimateP98LongestInteraction = Undefined
      ]_vars

\* A reset after interactions were counted and retained: the list and the map
\* are empty and the epoch's count is 0.
C31_Witness ==
    /\ prevInteractionCount > 0
    /\ ingested > 0
    /\ longestInteractionList = <<>>
    /\ longestInteractionMap = {}
    /\ getInteractionCountForNavigation = 0

\* The n largest durations of sn = {<<id, duration>>}, longest first.
RECURSIVE topDurations(_, _)
topDurations(sn, n) ==
    IF sn = {} \/ n = 0 THEN <<>>
    ELSE LET p == CHOOSE q \in sn : \A r \in sn : r[2] <= q[2]
         IN  <<p[2]>> \o topDurations(sn \ {p}, n - 1)

RECURSIVE retainedLatencies(_)
retainedLatencies(list) ==
    IF list = <<>> THEN <<>>
    ELSE <<Head(list).latency>> \o retainedLatencies(Tail(list))

\* C32: within an epoch the retained latencies are, as a multiset, the
\* MAX_INTERACTIONS_TO_CONSIDER largest of the longest sample durations of
\* the interactions seen in the epoch (all of them if there are fewer); and
\* when the list is full, a new interaction whose duration equals the
\* shortest retained latency is not admitted.
C32_TopLatencies ==
    /\ retainedLatencies(longestInteractionList)
         = topDurations(seen, MAX_INTERACTIONS_TO_CONSIDER)
    /\ Len(longestInteractionList) = MAX_INTERACTIONS_TO_CONSIDER =>
          LET tie == [interactionId |-> interactionCount + 1,
                      duration |-> minLatencyOr0(longestInteractionList),
                      startTime |-> 100, entryType |-> "event"]
              s   == [list |-> longestInteractionList,
                      map |-> longestInteractionMap]
          IN  /\ ~admits(s.list, s.map, tie)
              /\ processInteractionEntry(s, tie) = s

\* More interactions were seen than are retained, the list is full and its
\* latencies are not all equal.
C32_Witness ==
    /\ Len(longestInteractionList) = MAX_INTERACTIONS_TO_CONSIDER
    /\ Cardinality(seen) > MAX_INTERACTIONS_TO_CONSIDER
    /\ longestInteractionList[1].latency > minLatencyOr0(longestInteractionList)
    /\ \E p \in seen : p[1] \notin longestInteractionMap

\* C38: the lookup map and the retained list describe the same set of
\* interactions: the ids of the list's members are the map's keys and no id
\* occurs twice in the list.  (The map's value for a key is the member of the
\* list with that id: the code stores one object in both.)
C38_MapIsList ==
    /\ {longestInteractionList[i].id : i \in 1..Len(longestInteractionList)}
         = longestInteractionMap
    /\ \A i, j \in 1..Len(longestInteractionList) :
          longestInteractionList[i].id = longestInteractionList[j].id => i = j

\* An interaction that was admitted while the list had room has been evicted
\* since; the list is full.
C38_Witness ==
    /\ Len(longestInteractionList) = MAX_INTERACTIONS_TO_CONSIDER
    /\ \E p \in seen :
          /\ p[1] \notin longestInteractionMap
          /\ Cardinality({q \in seen : q[1] < p[1]})
               < MAX_INTERACTIONS_TO_CONSIDER

----------------------------------------------------------------------------
(* Claims about getVisibilityWatcher, checked under SpecFCP *)

\* C23: when the watcher is created firstHiddenTime becomes 0 for a hidden,
\* not prerendering document and Infinity otherwise; from Infinity it changes
\* only to the timeStamp of the document becoming hidden; and once it is
\* finite no visibility event changes it, until the timer of a cache
\* restoration derives it again.
C23_HiddenTimeFixed ==
    [][ /\ (firstHiddenTime = -1 /\ firstHiddenTime' # -1) =>
              firstHiddenTime' = IF /\ doc'.visibilityState = "hidden"
                                    /\ ~doc'.prerendering
                                 THEN 0 ELSE Infinity
        /\ (firstHiddenTime > -1 /\ watcher'.timers >= watcher.timers) =>
              \/ firstHiddenTime' = firstHiddenTime
              \/ /\ firstHiddenTime = Infinity
                 /\ doc.visibilityState = "visible"
                 /\ doc'.visibilityState = "hidden"
                 /\ firstHiddenTime' = clock
      ]_vars


----------------------------------------------------------------------------
(* Claims about lib/observe.ts, checked under SpecObserve *)

\* C24: when the entry type is unsupported, or constructing or starting the
\* observer throws, observe returns undefined, no exception leaves it, and
\* the callback is never invoked.
C24_ObserveFailsSilently ==
    (obPo # "uncalled" /\ (throwsAt(obEnv) # "none" \/ ~obEnv.includes)) =>
        /\ obPo = "undefined"
        /\ obBatches = <<>>
        /\ obTasks = <<>>

\* po.observe() threw, and the browser produced entries before and after
\* the call.
C24_Witness ==
    /\ throwsAt(obEnv) = "observe"
    /\ obPo = "undefined"
    /\ obProduced = MaxSamples

----------------------------------------------------------------------------
(* Claims about onINP, checked under SpecINP *)

\* The entries of the batch whose whenIdle callback has waited longest.
oldestBatch == Head(inp.idle).entries

\* C33: when the document becomes hidden, the samples still queued in the
\* observer are ingested and the estimate is recomputed before the forced
\* emission: the record takes the estimate over the retained list with the
\* queued samples ingested, and the emission of that step carries it (with
\* reportAllChanges a whenIdle callback that was still pending may emit
\* after the handler, so the emission is then identified only when none is
\* pending).  While the document is
\* visible a delivered batch is not ingested in the delivery step; samples
\* are ingested only by the idle callback of the batch that waited longest.
C33_FlushBeforeFinal ==
    [][/\ ( /\ doc.visibilityState = "visible"
            /\ doc'.visibilityState = "hidden"
            /\ inpListening ) =>
              LET t   == processEntries([list |-> longestInteractionList,
                                         map |-> longestInteractionMap], queue)
                  est == estimateP98(t.list, getInteractionCountForNavigation)
              IN  /\ queue' = <<>>
                  /\ ingested' >= ingested + Len(queue)
                  /\ (inp.idle = <<>> /\ est # Undefined) =>
                        metrics'[Len(metrics)].value = est[1].latency
                  /\ ( /\ inp.idle = <<>> \/ ~opts.reportAllChanges
                       /\ Len(calls') > Len(calls) ) =>
                        /\ est # Undefined
                        /\ calls'[Len(calls) + 1].value = est[1].latency
       /\ ( /\ doc.visibilityState = "visible"
            /\ doc'.visibilityState = "visible"
            /\ queue # <<>> /\ queue' = <<>> ) =>
              /\ ingested' = ingested
              /\ longestInteractionList' = longestInteractionList
              /\ metrics' = metrics
              /\ calls' = calls
              /\ inp'.idle = Append(inp.idle, [entries |-> queue,
                                               epoch |-> pageshows])
       /\ ( /\ doc.visibilityState = "visible"
            /\ doc'.visibilityState = "visible"
            /\ ingested' # ingested ) =>
              /\ inp.idle # <<>>
              /\ inp'.idle = Tail(inp.idle)
              /\ ingested' = ingested + Len(oldestBatch)
              /\ queue' = queue
      ]_vars

\* The hidden document's latest flush took samples from the observer, they
\* changed the estimate, and the forced emission carried it.
C33_Witness ==
    /\ doc.visibilityState = "hidden"
    /\ ~opts.reportAllChanges
    /\ inp.flushed > 0
    /\ ingested = inp.flushed
    /\ calls # <<>>
    /\ calls[Len(calls)].value = longestInteractionList[1].latency

\* C34: no batch crosses a restoration: every pending whenIdle batch was
\* scheduled in the present epoch, a restoration finds no batch pending and
\* ingests nothing itself, and its reset leaves the retained list empty for
\* the ingests of the new epoch.
C34_NoStaleIngest ==
    /\ [](\A i \in 1..Len(inp.idle) : inp.idle[i].epoch = pageshows)
    /\ [][pageshows' # pageshows =>
            /\ inp.idle = <<>>
            /\ ingested' = ingested
            /\ inpListening => /\ longestInteractionList' = <<>>
                               /\ longestInteractionMap' = {}
                               /\ seen' = {}
         ]_vars

\* Samples were ingested before a restoration, whose reset emptied the list,
\* and a batch of the new epoch is pending.
C34_Witness ==
    /\ pageshows > 0
    /\ ingested > 0
    /\ longestInteractionList = <<>>
    /\ inp.idle # <<>>

----------------------------------------------------------------------------
(* Claims about initMetric, checked under SpecNav *)

\* The type the priority cache-restore > prerender > discard-restore >
\* native gives on the page p; navigate when no native type is available.
typeByPriority(p) ==
    IF p.restorations > 0 THEN <<"back", "-", "forward", "-", "cache">>
    ELSE IF p.prerendering \/ p.navEntry.activationStart > 0
         THEN <<"prerender">>
    ELSE IF p.wasDiscarded THEN <<"restore">>
    ELSE IF p.available THEN replaceUnderscores(p.navEntry.type)
    ELSE <<"navigate">>

\* C35: every record's navigationType is the one the priority gives on the
\* page it was created on: back-forward-cache after a cache restoration,
\* else prerender for a prerendering or activated document, else restore for
\* a discarded one, else the native type with hyphens for underscores, and
\* navigate when none is available.
C35_TypeByPriority ==
    \A i \in 1..Len(nav.records) :
        nav.records[i].navigationType = typeByPriority(nav.records[i].page)

\* What the code gives: the priority holds for the records created while
\* getNavigationEntry() returns the entry and after no restoration that
\* the pageshow listeners of onBFCacheRestore missed; the others are
\* navigate, or back-forward-cache after a restoration a listener saw.
C35_TypeWhenObserved ==
    \A i \in 1..Len(nav.records) :
        LET r == nav.records[i] IN
        /\ ( /\ r.page.available
             /\ r.page.restorations > 0 => r.page.restoreTime > 0 ) =>
               r.navigationType = typeByPriority(r.page)
        /\ ~r.page.available =>
               r.navigationType
                 = IF r.page.restoreTime > 0
                   THEN <<"back", "-", "forward", "-", "cache">>
                   ELSE <<"navigate">>

----------------------------------------------------------------------------
(* Claims about whenIdle, checked under SpecWhenIdle *)

\* C36: a callback given to whenIdle runs exactly once: inside whenIdle if
\* the document is hidden at the call, otherwise on the first of the idle
\* signal and the hidden signal, never again on a later signal, and it does
\* run since one of the signals comes.
C36_RunsOnce ==
    /\ [](\A i \in 1..Len(wi) :
            LET c == wi[i] IN
            /\ c.runs <= 1
            /\ c.hiddenAtCall =>
                  /\ c.runs = 1 /\ c.ranBy = "call"
                  /\ c.idle = "none" /\ ~c.onHidden
            /\ ~c.hiddenAtCall =>
                  /\ c.ranBy = c.first
                  /\ c.runs = (IF c.first = "none" THEN 0 ELSE 1)
                  /\ c.first \in {"none", "idle", "hidden"})
    /\ \A i \in 1..MaxCallbacks :
          (Len(wi) >= i) ~> (Len(wi) >= i /\ wi[i].runs = 1)

\* A callback ran on the hidden signal and its idle callback fired later; it
\* ran once.
C36_Witness ==
    \E i \in 1..Len(wi) :
        /\ wi[i].ranBy = "hidden"
        /\ wi[i].idle = "fired"
        /\ wi[i].runs = 1

----------------------------------------------------------------------------
(* Claims about the algorithms together, checked under SpecEngine and *)
(* SpecHidden                                                        *)

\* C25: if observe() returns no observer for the category of CLS, LCP, FCP or
\* INP, the algorithm stays silent through every later hidden transition,
\* interaction and cache restoration: the consumer is never invoked, no record
\* is created after a restoration, no timer, frame or idle callback is
\* pending that would call a reporter, and where no reporter was bound (CLS,
\* LCP, FCP) none exists to be called.
C25_SilentWithoutObserver ==
    /\ (alg = "CLS" /\ po = "undefined") =>
          /\ clsCalls = <<>>
          /\ clsReports = <<>>
          /\ Len(clsMetrics) = 1
          /\ timer0 = "none"
          /\ rafs = <<0, 0>>
    /\ (alg \in {"LCP", "FCP"} /\ observer = "undefined") =>
          /\ calls = <<>>
          /\ reports = <<>>
          /\ Len(metrics) = 1
          /\ frames = <<<<>>, <<>>>>
          /\ lcp.idle = 0
    /\ (alg = "INP" /\ observer = "undefined") =>
          /\ calls = <<>>
          /\ reports = <<bindReporter>>
          /\ Len(metrics) = 1
          /\ inp.idle = <<>>
          /\ longestInteractionList = <<>>

\* onINP got no observer, and the page has been hidden, restored from the
\* cache and hidden again without the consumer being invoked.
C25_Witness ==
    /\ alg = "INP"
    /\ observer = "undefined"
    /\ pageshows >= 1
    /\ doc.visibilityState = "hidden"
    /\ calls = <<>>

\* The consumer's invocations after the hidden handler of the running
\* algorithm has run n times in a row from the current state, nothing
\* happening in between.
RECURSIVE clsOnHiddenTimes(_, _, _)
clsOnHiddenTimes(st, q, n) ==
    IF n = 0 THEN st ELSE clsOnHiddenTimes(clsOnHidden(st, q), <<>>, n - 1)

RECURSIVE fidOnHiddenTimes(_, _)
fidOnHiddenTimes(s, n) ==
    IF n = 0 THEN s ELSE fidOnHiddenTimes(fidOnHidden(s), n - 1)

RECURSIVE inpOnHiddenTimes(_, _)
inpOnHiddenTimes(s, n) ==
    IF n = 0 THEN s ELSE inpOnHiddenTimes(inpOnHidden(s), n - 1)

\* Whether the running algorithm has registered its hidden handler.
HiddenHandler ==
    CASE alg = "CLS" -> po = "observer"
      [] alg = "LCP" -> lcpListening
      [] alg = "FID" -> started = "yes" /\ observer \in {"observing", "disconnected"}
      [] alg = "INP" -> inpListening
      [] OTHER -> FALSE

callsAfterHidden(n) ==
    CASE alg = "CLS" -> clsOnHiddenTimes(ClsState, poQueue, n).calls
      [] alg = "LCP" -> stopListeningTimes([alg |-> Alg, lcp |-> lcp], n).alg.calls
      [] alg = "FID" ->
           fidOnHiddenTimes([alg |-> Alg, called |-> fid.called], n).alg.calls
      [] alg = "INP" -> inpOnHiddenTimes(InpState, n).alg.calls
      [] OTHER -> <<>>

\* C26 as stated: for CLS, LCP, FID and INP, running the hidden handler twice
\* in a row with no new sample in between invokes the consumer at most once
\* in total.
C26_FlushTwiceOnce ==
    HiddenHandler => Len(callsAfterHidden(2)) <= Len(callsAfterHidden(0)) + 1

\* C26: for CLS, LCP, FID and INP, the second of two runs of the hidden
\* handler in a row, with no new sample in between, does not invoke the
\* consumer; the two runs invoke it at most once in total, except that the
\* first run of onLCP's handler under reportAllChanges invokes it once for
\* every queued sample it accepts.
C26_SecondFlushSilent ==
    HiddenHandler =>
        LET twice == callsAfterHidden(2) IN
        /\ twice = callsAfterHidden(1)
        /\ ~(alg = "LCP" /\ opts.reportAllChanges) =>
              Len(twice) <= Len(callsAfterHidden(0)) + 1

\* onLCP reports all changes and two samples are queued when its handler
\* runs: the first run invokes the consumer twice, the second not at all.
C26_Witness ==
    /\ alg = "LCP"
    /\ lcpListening
    /\ opts.reportAllChanges
    /\ Len(queue) = 2
    /\ Len(callsAfterHidden(1)) = Len(calls) + 2
    /\ callsAfterHidden(2) = callsAfterHidden(1)

====
